---- MODULE Spec2Model ----
(***************************************************************************)
(* A model of libsmfparse (smfparse.c / smfparse.h): the input source      *)
(* object (SMFSOURCE) with its four states and optional callbacks, the     *)
(* built-in file-handle source (HANDLE_SOURCE), the chunk framer and the   *)
(* event engine behind smfparse_read.                                      *)
(*                                                                         *)
(* Sequential C functions are operators that thread the objects they       *)
(* change: a reader takes the source record s (and the chunk remainder)    *)
(* and returns a record with the new source record, the value read and     *)
(* the error code.  The input stream under the handle source is the        *)
(* environment: `ahead` holds the bytes that follow the file position as   *)
(* far as they are fixed, and `tail` tells what follows them ("eof": the   *)
(* end of the file, "err": a byte the stream fails to deliver, "more":     *)
(* bytes that are not fixed yet).                                          *)
(***************************************************************************)
EXTENDS Integers, Sequences, FiniteSets, TLC

(***************************************************************************)
(* Constants of the program                                                *)
(***************************************************************************)
SOURCE_STATE_NORMAL == 0
SOURCE_STATE_ERROR == 1
SOURCE_STATE_DOUBLE == 2
SOURCE_STATE_EOF == 3

HANDLE_FILE_MAXLEN == 1073741824

BCAP_INIT == 256
BCAP_MAX == 32768

SMF_MAX_VARINT == 268435455
SMF_MAX_TIME_DENOM == 1024
SMF_MIN_KEYSIG == -7
SMF_MAX_KEYSIG == 7

SMFSOURCE_EOF == -1
SMFSOURCE_IOERR == -2

SMF_TYPE_EOF == 0
SMF_TYPE_HEADER == 1
SMF_TYPE_CHUNK == 2
SMF_TYPE_BEGIN_TRACK == 3
SMF_TYPE_END_TRACK == 4
SMF_TYPE_NOTE_OFF == 5
SMF_TYPE_NOTE_ON == 6
SMF_TYPE_KEY_AFTERTOUCH == 7
SMF_TYPE_CONTROL == 8
SMF_TYPE_PROGRAM == 9
SMF_TYPE_CH_AFTERTOUCH == 10
SMF_TYPE_PITCH_BEND == 11
SMF_TYPE_SYSEX == 12
SMF_TYPE_SYSESC == 13
SMF_TYPE_SEQ_NUM == 14
SMF_TYPE_TEXT == 15
SMF_TYPE_CH_PREFIX == 16
SMF_TYPE_TEMPO == 17
SMF_TYPE_SMPTE == 18
SMF_TYPE_TIME_SIG == 19
SMF_TYPE_KEY_SIG == 20
SMF_TYPE_META == 21

(* The error codes: negative integers, in the order of smf_errorString.   *)
SMF_ERR_IO == -1
SMF_ERR_HUGE_FILE == -2
SMF_ERR_OPEN_FILE == -3
SMF_ERR_EOF == -4
SMF_ERR_HUGE_CHUNK == -5
SMF_ERR_SIGNATURE == -6
SMF_ERR_HEADER == -7
SMF_ERR_MIDI_FMT == -8
SMF_ERR_NO_TRACKS == -9
SMF_ERR_MULTI_TRACK == -10
SMF_ERR_MULTI_HEAD == -11
SMF_ERR_OPEN_TRACK == -12
SMF_ERR_LONG_VARINT == -13
SMF_ERR_RUN_STATUS == -14
SMF_ERR_BIG_PAYLOAD == -15
SMF_ERR_BAD_EVENT == -16
SMF_ERR_SEQ_NUM == -17
SMF_ERR_CH_PREFIX == -18
SMF_ERR_BAD_EOT == -19
SMF_ERR_SET_TEMPO == -20
SMF_ERR_SMPTE_OFF == -21
SMF_ERR_TIME_SIG == -22
SMF_ERR_KEY_SIG == -23
SMF_ERR_MIDI_DATA == -24

(***************************************************************************)
(* Bounds of the model                                                     *)
(***************************************************************************)
\* largest number of bytes a chunk holds beyond the variable-length integer
\* that readChunkVar is applied to
MaxSpare == 1
\* largest number of bytes by which the declared length of a track exceeds
\* the events written in it, in the sessions on a pair of files
MaxSlack == 1
\* number of iterations of the payload loop of readEvent that make one step
\* of a session that reads a sysex or meta event step by step
PayloadBlock == 16
\* longest input of a source-only session
MaxSrcLen == 3
\* largest distance a client passes to smfsource_skip in a source-only session
MaxSkip == 4
\* largest length an MTrk chunk header of the input alphabet declares
MaxTrkLen == 8
\* no further input is supplied once the file position has passed this offset
MaxLen == 40

VARIABLES src, ps, ent, last, mon

vars == <<src, ps, ent, last, mon>>

\* A pointer is modelled as a sequence: <<>> is NULL, <<x>> points to x.
NULL == <<>>

(***************************************************************************)
(* The input stream (the FILE under a HANDLE_SOURCE): environment          *)
(***************************************************************************)

\* fgetc(ps->fh): the next byte; at the end of `ahead` the end of file, a
\* read error, or (bytes not fixed yet) a call whose outcome this input
\* does not determine: it is flagged `starved` and ends like a read error.
fgetc(s) ==
  IF s.ahead # <<>>
    THEN [s |-> [s EXCEPT !.ahead = Tail(@)], c |-> Head(s.ahead), feof |-> FALSE]
    ELSE IF s.tail = "eof"
      THEN [s |-> s, c |-> -1, feof |-> TRUE]
      ELSE [s |-> [s EXCEPT !.starved = @ \/ (s.tail = "more")], c |-> -1, feof |-> FALSE]

\* fseek(ps->fh, skip, SEEK_CUR) # 0: seeking fails when it has to pass the
\* byte the stream cannot deliver; a seek into bytes not fixed yet is
\* undetermined (starved).
fseek(s, skip) ==
  IF skip <= Len(s.ahead)
    THEN [s |-> [s EXCEPT !.ahead = SubSeq(@, skip + 1, Len(@))], failed |-> FALSE]
    ELSE IF s.tail = "eof"
      THEN [s |-> [s EXCEPT !.ahead = <<>>], failed |-> FALSE]
      ELSE [s |-> [s EXCEPT !.starved = @ \/ (s.tail = "more")], failed |-> TRUE]

\* rewind(ps->fh): `ok` is whether the stream reports success (errno = 0)
rewind(s, ok) ==
  IF ok THEN [s EXCEPT !.ahead = s.orig] ELSE s

(***************************************************************************)
(* HANDLE_SOURCE: the callbacks of the built-in file-handle source         *)
(***************************************************************************)

\* HANDLE_SOURCE.flen: the file length cached by smfsource_new_handle when
\* the handle can seek, else -1.  While the end of the input is not fixed
\* the length is only known not to exceed HANDLE_FILE_MAXLEN.
flen(s) ==
  IF ~s.can_seek THEN -1
  ELSE IF s.tail = "eof" THEN s.fptr + Len(s.ahead)
  ELSE HANDLE_FILE_MAXLEN

\* handle_source_read after its fgetc: the byte, and the position moves on
handle_source_got(g) ==
  IF g.c = -1
    THEN IF g.feof THEN [s |-> [g.s EXCEPT !.cbEof = TRUE], c |-> SMFSOURCE_EOF]
         ELSE [s |-> [g.s EXCEPT !.cbErr = TRUE], c |-> SMFSOURCE_IOERR]
    ELSE [s |-> [g.s EXCEPT !.fptr = @ + 1], c |-> g.c]

handle_source_read(s0) ==
  IF flen(s0) < 0 /\ s0.fptr >= HANDLE_FILE_MAXLEN
    THEN [s |-> [s0 EXCEPT !.cbRead = @ + 1, !.cbErr = TRUE], c |-> SMFSOURCE_IOERR]
  ELSE IF flen(s0) >= 0 /\ s0.fptr >= flen(s0)
    THEN [s |-> [s0 EXCEPT !.cbRead = @ + 1, !.cbEof = TRUE], c |-> SMFSOURCE_EOF]
  ELSE handle_source_got(fgetc([s0 EXCEPT !.cbRead = @ + 1]))

handle_source_rewind(s0, ok) ==
  IF ok THEN [s |-> [rewind(s0, ok) EXCEPT !.cbRewind = @ + 1, !.fptr = 0], status |-> 1]
  ELSE [s |-> [rewind(s0, ok) EXCEPT !.cbRewind = @ + 1], status |-> 0]

\* ok: whether fclose succeeds; cbFail records that the callback returned 0
handle_source_close(s0, ok) ==
  [s |-> [s0 EXCEPT !.cbClose = @ + 1, !.cbFail = s0.is_owner /\ ~ok],
   status |-> IF s0.is_owner /\ ~ok THEN 0 ELSE 1]

\* handle_source_skip after its fseek over the clamped distance
handle_source_sought(k, skip) ==
  IF k.failed THEN [s |-> [k.s EXCEPT !.cbErr = TRUE], status |-> 0]
  ELSE [s |-> [k.s EXCEPT !.fptr = @ + skip], status |-> 1]

\* handle_source_skip once the distance is clamped to the end of the file
handle_source_seek(s, skip) ==
  IF skip > 0 THEN handle_source_sought(fseek(s, skip), skip)
  ELSE [s |-> s, status |-> 1]

handle_source_skip(s0, skip0) ==
  handle_source_seek([s0 EXCEPT !.cbSkip = @ + 1],
                     IF skip0 > flen(s0) - s0.fptr THEN flen(s0) - s0.fptr ELSE skip0)

(***************************************************************************)
(* SMFSOURCE: the public source functions                                  *)
(***************************************************************************)

\* smfsource_custom: a source object in the NORMAL state with the given
\* optional callbacks, over the file `file` whose end is `tail`; rdEof
\* records that smfsource_read has returned SMFSOURCE_EOF to its caller,
\* skipArg the distance smfsource_skip was called with (-1: no call), fault
\* the line of the fault(__LINE__) a source function has reached (0: none)
smfsource_custom(file, tail, can_seek, fRewind, fClose, fSkip, is_owner) ==
  [state |-> SOURCE_STATE_NORMAL,
   fRewind |-> fRewind, fClose |-> fClose, fSkip |-> fSkip,
   can_seek |-> can_seek, is_owner |-> is_owner,
   fptr |-> 0, ahead |-> file, tail |-> tail, orig |-> file,
   released |-> FALSE, starved |-> FALSE,
   nApi |-> 0, cbRead |-> 0, cbSkip |-> 0, cbRewind |-> 0, cbClose |-> 0,
   cbEof |-> FALSE, cbErr |-> FALSE, cbFail |-> FALSE, rdEof |-> FALSE,
   skipArg |-> -1, fault |-> 0]

\* smfsource_new_handle: rewind and skip callbacks exactly when can_seek
smfsource_new_handle(file, tail, is_owner, can_seek) ==
  smfsource_custom(file, tail, can_seek, can_seek, TRUE, can_seek, is_owner)

\* smfsource_close reporting failure whatever the close callback returned:
\* the fault C12_Close has to detect
smfsource_closed_failed(r) ==
  [s |-> <<[r.s EXCEPT !.released = TRUE]>>, status |-> IF r.status = 0 THEN 0 ELSE 0]

\* smfsource_close after the close callback has returned r
smfsource_closed(r) ==
  [s |-> <<[r.s EXCEPT !.released = TRUE]>>, status |-> IF r.status = 0 THEN 0 ELSE 1]

\* smfsource_close(pSrc): pSrc is NULL or points to the source object; the
\* object is released whatever the callback returns
smfsource_close(pSrc, ok) ==
  IF pSrc # NULL
    THEN IF pSrc[1].fClose
           THEN smfsource_closed(handle_source_close(pSrc[1], ok))
           ELSE [s |-> <<[pSrc[1] EXCEPT !.released = TRUE]>>, status |-> 1]
    ELSE [s |-> NULL, status |-> 1]

\* smfsource_canRewind answering yes for every source: the fault
\* C10_NoRewindCallback has to detect
smfsource_canRewind_always(s) == IF s.fRewind THEN 1 ELSE 1

smfsource_canRewind(s) == IF s.fRewind THEN 1 ELSE 0

\* smfsource_rewound with a failed rewind leaving the state as it was: the
\* fault C7_DoubleErrorTerminal has to detect
smfsource_rewound_keep(r) ==
  IF r.status = 0 THEN [s |-> r.s, status |-> 0] ELSE [s |-> r.s, status |-> 1]

\* smfsource_rewind after the rewind callback has returned r
smfsource_rewound(r) ==
  IF r.status = 0
    THEN [s |-> [r.s EXCEPT !.state = SOURCE_STATE_DOUBLE], status |-> 0]
    ELSE [s |-> r.s, status |-> 1]

smfsource_rewind(s0, ok) ==
  IF ~s0.fRewind \/ s0.state = SOURCE_STATE_DOUBLE
    THEN [s |-> [s0 EXCEPT !.nApi = @ + 1], status |-> 0]
    ELSE smfsource_rewound(handle_source_rewind([s0 EXCEPT !.nApi = @ + 1], ok))

\* the loop of smfsource_skip that simulates a skip by reads, and its body
\* after the read callback has returned r
RECURSIVE SkipByRead(_, _, _)
RECURSIVE SkipByReadGot(_, _, _)
\* SkipByReadGot failing the simulated skip at the end of the file
SkipByReadGot_eofFails(r, i, skip) ==
  IF r.c = SMFSOURCE_EOF
    THEN [s |-> [r.s EXCEPT !.state = SOURCE_STATE_EOF], status |-> 0]
  ELSE IF r.c = SMFSOURCE_IOERR
    THEN [s |-> [r.s EXCEPT !.state = SOURCE_STATE_ERROR], status |-> 0]
  ELSE SkipByRead(r.s, i + 1, skip)

SkipByReadGot(r, i, skip) ==
  IF r.c = SMFSOURCE_EOF
    THEN [s |-> [r.s EXCEPT !.state = SOURCE_STATE_EOF], status |-> 1]
  ELSE IF r.c = SMFSOURCE_IOERR
    THEN [s |-> [r.s EXCEPT !.state = SOURCE_STATE_ERROR], status |-> 0]
  ELSE SkipByRead(r.s, i + 1, skip)

\* SkipByRead making one read too many: the fault C11_SkipClamped has to
\* detect
SkipByRead_extra(s, i, skip) ==
  IF i > skip THEN [s |-> s, status |-> 1]
  ELSE SkipByReadGot(handle_source_read(s), i, skip)

SkipByRead(s, i, skip) ==
  IF i >= skip THEN [s |-> s, status |-> 1]
  ELSE SkipByReadGot(handle_source_read(s), i, skip)

\* smfsource_skip after the skip callback has returned r
smfsource_skipped(r) ==
  IF r.status = 0
    THEN [s |-> [r.s EXCEPT !.state = SOURCE_STATE_ERROR], status |-> 0]
    ELSE [s |-> r.s, status |-> 1]

smfsource_skip(s0, skip) ==
  IF skip < 0
    THEN [s |-> [s0 EXCEPT !.nApi = @ + 1, !.skipArg = skip, !.fault = 1976], status |-> 0]
  ELSE IF s0.state = SOURCE_STATE_ERROR \/ s0.state = SOURCE_STATE_DOUBLE
    THEN [s |-> [s0 EXCEPT !.nApi = @ + 1, !.skipArg = skip], status |-> 0]
  ELSE IF skip > 0 /\ s0.state = SOURCE_STATE_NORMAL
    THEN IF s0.fSkip
           THEN smfsource_skipped(handle_source_skip(
                  [s0 EXCEPT !.nApi = @ + 1, !.skipArg = skip], skip))
           ELSE SkipByRead([s0 EXCEPT !.nApi = @ + 1, !.skipArg = skip], 0, skip)
  ELSE [s |-> [s0 EXCEPT !.nApi = @ + 1, !.skipArg = skip], status |-> 1]

\* smfsource_got without the change to ERROR: the fault C8_ErrorState has
\* to detect
smfsource_got_noError(r) ==
  IF r.c = SMFSOURCE_EOF
    THEN [s |-> [r.s EXCEPT !.state = SOURCE_STATE_EOF], c |-> r.c]
  ELSE r

\* smfsource_got without the change to EOF: the fault
\* C9_EofUntilRewindCallback has to detect
smfsource_got_noEof(r) ==
  IF r.c = SMFSOURCE_IOERR
    THEN [s |-> [r.s EXCEPT !.state = SOURCE_STATE_ERROR], c |-> r.c]
  ELSE r

\* smfsource_read after the read callback has returned r
smfsource_got(r) ==
  IF r.c = SMFSOURCE_IOERR
    THEN [s |-> [r.s EXCEPT !.state = SOURCE_STATE_ERROR], c |-> r.c]
  ELSE IF r.c = SMFSOURCE_EOF
    THEN [s |-> [r.s EXCEPT !.state = SOURCE_STATE_EOF, !.rdEof = TRUE], c |-> r.c]
  ELSE r

smfsource_read(s0) ==
  IF s0.state = SOURCE_STATE_ERROR \/ s0.state = SOURCE_STATE_DOUBLE
    THEN [s |-> [s0 EXCEPT !.nApi = @ + 1], c |-> SMFSOURCE_IOERR]
  ELSE IF s0.state = SOURCE_STATE_NORMAL
    THEN smfsource_got(handle_source_read([s0 EXCEPT !.nApi = @ + 1]))
  ELSE [s |-> [s0 EXCEPT !.nApi = @ + 1, !.rdEof = TRUE], c |-> SMFSOURCE_EOF]

(***************************************************************************)
(* Chunk framer: the big-endian and in-chunk readers                       *)
(***************************************************************************)

\* the loop of readUint16BE, and its body after the read has returned r
RECURSIVE U16Loop(_, _, _)
RECURSIVE U16Got(_, _, _)
U16Got(r, i, result) ==
  IF r.c = SMFSOURCE_IOERR THEN [s |-> r.s, v |-> -1, err |-> SMF_ERR_IO]
  ELSE IF r.c = SMFSOURCE_EOF THEN [s |-> r.s, v |-> -1, err |-> SMF_ERR_EOF]
  ELSE U16Loop(r.s, i + 1, result * 256 + r.c)

U16Loop(s, i, result) ==
  IF i >= 2 THEN [s |-> s, v |-> result, err |-> 0]
  ELSE U16Got(smfsource_read(s), i, result)

readUint16BE(s) == U16Loop(s, 0, 0)

\* the loop of readUint32BE.  The unsigned 32-bit value *pv is kept as its
\* two 16-bit halves <<hi, lo>>, so that values above 2^31 - 1 are
\* represented exactly: *pv <<= 8; *pv |= c in that representation.
RECURSIVE U32Loop(_, _, _)
RECURSIVE U32Got(_, _, _)
U32Got(r, i, pv) ==
  IF r.c = SMFSOURCE_IOERR
    THEN [s |-> r.s, status |-> 0, pv |-> pv, err |-> SMF_ERR_IO]
  ELSE IF r.c = SMFSOURCE_EOF
    THEN [s |-> r.s, status |-> 0, pv |-> pv, err |-> SMF_ERR_EOF]
  ELSE U32Loop(r.s, i + 1,
         <<((pv[1] % 256) * 256) + (pv[2] \div 256), ((pv[2] % 256) * 256) + r.c>>)

U32Loop(s, i, pv) ==
  IF i >= 4 THEN [s |-> s, status |-> 1, pv |-> pv, err |-> 0]
  ELSE U32Got(smfsource_read(s), i, pv)

readUint32BE(s) == U32Loop(s, 0, <<0, 0>>)

\* readChunkByte after the read has returned r
readChunkByteGot(r, rem) ==
  IF r.c = SMFSOURCE_EOF THEN [s |-> r.s, rem |-> rem, c |-> -1, err |-> SMF_ERR_EOF]
  ELSE IF r.c = SMFSOURCE_IOERR THEN [s |-> r.s, rem |-> rem, c |-> -1, err |-> SMF_ERR_IO]
  ELSE [s |-> r.s, rem |-> rem - 1, c |-> r.c, err |-> 0]

\* readChunkByte reading before it looks at the remainder
readChunkByte_readFirst(s, rem) ==
  IF rem < 1 THEN [s |-> smfsource_read(s).s, rem |-> rem, c |-> -1, err |-> SMF_ERR_OPEN_TRACK]
  ELSE readChunkByteGot(smfsource_read(s), rem)

readChunkByte(s, rem) ==
  IF rem < 1 THEN [s |-> s, rem |-> rem, c |-> -1, err |-> SMF_ERR_OPEN_TRACK]
  ELSE readChunkByteGot(smfsource_read(s), rem)

\* the processing loop of readChunkVar, and its body after the byte r
RECURSIVE VarLoop(_, _, _, _)
RECURSIVE VarGot(_, _, _)
\* VarGot taking all eight bits of the last byte's predecessors: the fault
\* C13_Delta has to detect
VarGot_unmasked(r, bc, result) ==
  IF r.c < 0 THEN [s |-> r.s, rem |-> r.rem, v |-> -1, err |-> r.err]
  ELSE IF r.c < 128
    THEN [s |-> r.s, rem |-> r.rem, v |-> (result * 128) + (r.c % 128), err |-> 0]
  ELSE IF bc + 1 >= 4
    THEN [s |-> r.s, rem |-> r.rem, v |-> -1, err |-> SMF_ERR_LONG_VARINT]
  ELSE VarLoop(r.s, r.rem, bc + 1, (result * 128) + r.c)

\* VarGot giving up one byte early: the fault C14_VarintRoundTrip has to
\* detect
VarGot_three(r, bc, result) ==
  IF r.c < 0 THEN [s |-> r.s, rem |-> r.rem, v |-> -1, err |-> r.err]
  ELSE IF r.c < 128
    THEN [s |-> r.s, rem |-> r.rem, v |-> (result * 128) + (r.c % 128), err |-> 0]
  ELSE IF bc + 1 >= 3
    THEN [s |-> r.s, rem |-> r.rem, v |-> -1, err |-> SMF_ERR_LONG_VARINT]
  ELSE VarLoop(r.s, r.rem, bc + 1, (result * 128) + (r.c % 128))

\* VarGot taking a fourth byte with the top bit set as the last byte: the
\* fault C15_LongVarint has to detect
VarGot_lenient(r, bc, result) ==
  IF r.c < 0 THEN [s |-> r.s, rem |-> r.rem, v |-> -1, err |-> r.err]
  ELSE IF r.c < 128 \/ bc + 1 >= 4
    THEN [s |-> r.s, rem |-> r.rem, v |-> (result * 128) + (r.c % 128), err |-> 0]
  ELSE VarLoop(r.s, r.rem, bc + 1, (result * 128) + (r.c % 128))

VarGot(r, bc, result) ==
  IF r.c < 0 THEN [s |-> r.s, rem |-> r.rem, v |-> -1, err |-> r.err]
  ELSE IF r.c < 128
    THEN [s |-> r.s, rem |-> r.rem, v |-> (result * 128) + (r.c % 128), err |-> 0]
  ELSE IF bc + 1 >= 4
    THEN [s |-> r.s, rem |-> r.rem, v |-> -1, err |-> SMF_ERR_LONG_VARINT]
  ELSE VarLoop(r.s, r.rem, bc + 1, (result * 128) + (r.c % 128))

VarLoop(s, rem, bc, result) == VarGot(readChunkByte(s, rem), bc, result)

readChunkVar(s, rem) == VarLoop(s, rem, 0, 0)

\* the chunk type codes 0x4d546864 "MThd" and 0x4d54726b "MTrk" as halves
TYPE_MThd == <<19796, 26724>>
TYPE_MTrk == <<19796, 29291>>

\* readChunkHeadLen casting the length to int32_t without the test of its
\* range
readChunkHeadLen_cast(type, l) ==
  IF l.status = 0
    THEN [s |-> l.s, status |-> 0, type |-> type, len |-> 0, err |-> l.err]
  ELSE IF l.pv[1] >= 32768
    THEN [s |-> l.s, status |-> 1, type |-> type,
          len |-> ((l.pv[1] - 65536) * 65536) + l.pv[2], err |-> 0]
  ELSE [s |-> l.s, status |-> 1, type |-> type,
        len |-> (l.pv[1] * 65536) + l.pv[2], err |-> 0]

\* readChunkHead after the length field l has been read
readChunkHeadLen(type, l) ==
  IF l.status = 0
    THEN [s |-> l.s, status |-> 0, type |-> type, len |-> 0, err |-> l.err]
  ELSE IF l.pv[1] >= 32768
    THEN [s |-> l.s, status |-> 0, type |-> type, len |-> 0, err |-> SMF_ERR_HUGE_CHUNK]
  ELSE [s |-> l.s, status |-> 1, type |-> type,
        len |-> (l.pv[1] * 65536) + l.pv[2], err |-> 0]

\* readChunkHead after the type field t has been read
readChunkHeadType(t) ==
  IF t.status = 0
    THEN [s |-> t.s, status |-> 0, type |-> t.pv, len |-> 0, err |-> t.err]
    ELSE readChunkHeadLen(t.pv, readUint32BE(t.s))

readChunkHead(s) == readChunkHeadType(readUint32BE(s))

HeaderFail(s, err) == [s |-> s, status |-> 0, err |-> err, ph |-> <<>>]

\* the decoding of the division field in readHeaderChunk; <<>> if invalid
TimeSystem(division) ==
  IF division < 32768
    THEN IF division > 0 THEN <<[subdiv |-> division, frame_rate |-> 0]>> ELSE <<>>
    ELSE IF ((255 - (division \div 256)) + 1 # 24 /\ (255 - (division \div 256)) + 1 # 25
             /\ (255 - (division \div 256)) + 1 # 29 /\ (255 - (division \div 256)) + 1 # 30)
            \/ division % 256 < 1
      THEN <<>>
      ELSE <<[subdiv |-> division % 256, frame_rate |-> (255 - (division \div 256)) + 1]>>

\* readHeaderChunk counting the tracks before it looks at the format
readHeaderCheck_tracksFirst(fmt, ntrks, ts, k) ==
  IF k.status = 0 THEN HeaderFail(k.s, SMF_ERR_IO)
  ELSE IF ntrks < 1 THEN HeaderFail(k.s, SMF_ERR_NO_TRACKS)
  ELSE IF fmt > 2 THEN HeaderFail(k.s, SMF_ERR_MIDI_FMT)
  ELSE IF fmt = 0 /\ ntrks > 1 THEN HeaderFail(k.s, SMF_ERR_MULTI_TRACK)
  ELSE IF ts = <<>> THEN HeaderFail(k.s, SMF_ERR_HEADER)
  ELSE [s |-> k.s, status |-> 1, err |-> 0,
        ph |-> <<[fmt |-> fmt, nTracks |-> ntrks,
                  subdiv |-> ts[1].subdiv, frame_rate |-> ts[1].frame_rate]>>]

\* readHeaderChunk after the excess of the chunk has been skipped (k): the
\* checks of the three fields
readHeaderCheck(fmt, ntrks, ts, k) ==
  IF k.status = 0 THEN HeaderFail(k.s, SMF_ERR_IO)
  ELSE IF fmt > 2 THEN HeaderFail(k.s, SMF_ERR_MIDI_FMT)
  ELSE IF ntrks < 1 THEN HeaderFail(k.s, SMF_ERR_NO_TRACKS)
  ELSE IF fmt = 0 /\ ntrks > 1 THEN HeaderFail(k.s, SMF_ERR_MULTI_TRACK)
  ELSE IF ts = <<>> THEN HeaderFail(k.s, SMF_ERR_HEADER)
  ELSE [s |-> k.s, status |-> 1, err |-> 0,
        ph |-> <<[fmt |-> fmt, nTracks |-> ntrks,
                  subdiv |-> ts[1].subdiv, frame_rate |-> ts[1].frame_rate]>>]

\* readHeaderChunk after each of its reads: the division, the number of
\* tracks, the format, the chunk header
readHeaderDivision(len, fmt, ntrks, division) ==
  IF division.v < 0 THEN HeaderFail(division.s, division.err)
  ELSE readHeaderCheck(fmt, ntrks, TimeSystem(division.v),
                       smfsource_skip(division.s, len - 6))

readHeaderNtrks(len, fmt, ntrks) ==
  IF ntrks.v < 0 THEN HeaderFail(ntrks.s, ntrks.err)
  ELSE readHeaderDivision(len, fmt, ntrks.v, readUint16BE(ntrks.s))

readHeaderFmt(len, fmt) ==
  IF fmt.v < 0 THEN HeaderFail(fmt.s, fmt.err)
  ELSE readHeaderNtrks(len, fmt.v, readUint16BE(fmt.s))

readHeaderHead(h) ==
  IF h.status = 0 THEN HeaderFail(h.s, h.err)
  ELSE IF h.type # TYPE_MThd THEN HeaderFail(h.s, SMF_ERR_SIGNATURE)
  ELSE IF h.len < 6 THEN HeaderFail(h.s, SMF_ERR_HEADER)
  ELSE readHeaderFmt(h.len, readUint16BE(h.s))

readHeaderChunk(s0) == readHeaderHead(readChunkHead(s0))

(***************************************************************************)
(* Event engine                                                            *)
(***************************************************************************)


\* smfparse_alloc: a parser in the initial state (calloc zeroes the rest)
smfparse_alloc ==
  [status |-> 0, ckrem |-> -1, trkcount |-> 0,
   head |-> [fmt |-> 0, nTracks |-> 0, subdiv |-> 0, frame_rate |-> 0],
   rHead |-> [fmt |-> 0, nTracks |-> 0, subdiv |-> 0, frame_rate |-> 0],
   rTC |-> [hour |-> 0, minute |-> 0, second |-> 0, frame |-> 0, ff |-> 0],
   rTS |-> [numerator |-> 0, denominator |-> 0, click |-> 0, beat_unit |-> 0],
   rKS |-> [key |-> 0, is_minor |-> 0],
   blen |-> 0, bcap |-> 0, bptr |-> <<>>, run |-> -1, fault |-> 0]

\* the entity structure as smfparse_read resets it
EntityReset ==
  [status |-> 0, pHead |-> NULL, chunk_type |-> <<0, 0>>, delta |-> -1, ch |-> -1,
   key |-> -1, ctl |-> -1, val |-> -1, bend |-> 0, buf_len |-> 0, buf_ptr |-> NULL,
   seq_num |-> -1, txtype |-> -1, beat_dur |-> -1, tcode |-> NULL, tsig |-> NULL,
   ksig |-> NULL, meta_type |-> -1]

\* fault(__LINE__): the process exits; the parser records the line
Fault(p, lnum) == [p EXCEPT !.fault = IF @ = 0 THEN lnum ELSE @]

\* pushBuffer that never finds the buffer at its maximum capacity: the
\* fault C18_BufferCap has to detect
pushBuffer_uncapped(p0, c) ==
  LET p1 == IF p0.bcap < 1 THEN [p0 EXCEPT !.bcap = BCAP_INIT, !.blen = 0, !.bptr = <<>>]
            ELSE p0
      full == p1.blen >= p1.bcap
      p2 == IF full THEN [p1 EXCEPT !.bcap = @ * 2] ELSE p1
  IN [ps |-> [p2 EXCEPT !.bptr = Append(@, c), !.blen = @ + 1], status |-> 1]

\* pushBuffer; bptr holds the blen bytes that are in use
pushBuffer(p0, c) ==
  LET p1 == IF p0.bcap < 1 THEN [p0 EXCEPT !.bcap = BCAP_INIT, !.blen = 0, !.bptr = <<>>]
            ELSE p0
      full == p1.blen >= p1.bcap
      new_cap == IF p1.bcap * 2 > BCAP_MAX THEN BCAP_MAX ELSE p1.bcap * 2
      p2 == IF full /\ p1.bcap < BCAP_MAX THEN [p1 EXCEPT !.bcap = new_cap] ELSE p1
  IN IF full /\ p1.bcap >= BCAP_MAX THEN [ps |-> p1, status |-> 0]
     ELSE [ps |-> [p2 EXCEPT !.bptr = Append(@, c), !.blen = @ + 1], status |-> 1]

\* the entity with its data buffer fields set from the parser's buffer
WithBuffer(e, p) ==
  [e EXCEPT !.buf_len = p.blen, !.buf_ptr = IF p.blen > 0 THEN p.bptr ELSE NULL]

ParseFail(p, e, err) == [ps |-> p, ent |-> e, status |-> 0, err |-> err]
ParseOk(p, e) == [ps |-> p, ent |-> e, status |-> 1, err |-> 0]

\* parseEvent, meta-event 0x54, without the test of the dropped timecodes
parseSMPTE_noDrop(p0, e, delta) ==
  LET tc == [hour |-> p0.bptr[1], minute |-> p0.bptr[2], second |-> p0.bptr[3],
             frame |-> p0.bptr[4], ff |-> p0.bptr[5]]
      p == [p0 EXCEPT !.rTC = tc]
      fr == p.head.frame_rate
  IN IF p0.blen # 5 THEN ParseFail(p0, e, SMF_ERR_SMPTE_OFF)
     ELSE IF tc.hour > 23 \/ tc.minute > 59 \/ tc.second > 59 \/ tc.frame > 29 \/ tc.ff > 99
       THEN ParseFail(p, e, SMF_ERR_SMPTE_OFF)
     ELSE IF fr > 0 /\ fr < 29 /\ tc.frame >= fr THEN ParseFail(p, e, SMF_ERR_SMPTE_OFF)
     ELSE ParseOk(p, [e EXCEPT !.status = SMF_TYPE_SMPTE, !.delta = delta, !.tcode = <<tc>>])

\* parseEvent, meta-event 0x54, with the test of the dropped timecodes taken
\* the other way round: minute divisible by 10
parseSMPTE_tenth(p0, e, delta) ==
  LET tc == [hour |-> p0.bptr[1], minute |-> p0.bptr[2], second |-> p0.bptr[3],
             frame |-> p0.bptr[4], ff |-> p0.bptr[5]]
      p == [p0 EXCEPT !.rTC = tc]
      fr == p.head.frame_rate
  IN IF p0.blen # 5 THEN ParseFail(p0, e, SMF_ERR_SMPTE_OFF)
     ELSE IF tc.hour > 23 \/ tc.minute > 59 \/ tc.second > 59 \/ tc.frame > 29 \/ tc.ff > 99
       THEN ParseFail(p, e, SMF_ERR_SMPTE_OFF)
     ELSE IF fr > 0 /\ fr < 29 /\ tc.frame >= fr THEN ParseFail(p, e, SMF_ERR_SMPTE_OFF)
     ELSE IF fr = 29 /\ (tc.minute % 10) = 0 /\ tc.frame < 2
       THEN ParseFail(p, e, SMF_ERR_SMPTE_OFF)
     ELSE ParseOk(p, [e EXCEPT !.status = SMF_TYPE_SMPTE, !.delta = delta, !.tcode = <<tc>>])

\* parseEvent, meta-event 0x54, with the frame number held against 30 frames
\* whatever the header declared
parseSMPTE_thirty(p0, e, delta) ==
  LET tc == [hour |-> p0.bptr[1], minute |-> p0.bptr[2], second |-> p0.bptr[3],
             frame |-> p0.bptr[4], ff |-> p0.bptr[5]]
      p == [p0 EXCEPT !.rTC = tc]
      fr == p.head.frame_rate
  IN IF p0.blen # 5 THEN ParseFail(p0, e, SMF_ERR_SMPTE_OFF)
     ELSE IF tc.hour > 23 \/ tc.minute > 59 \/ tc.second > 59 \/ tc.frame > 29 \/ tc.ff > 99
       THEN ParseFail(p, e, SMF_ERR_SMPTE_OFF)
     ELSE IF fr = 29 /\ (tc.minute % 10) # 0 /\ tc.frame < 2
       THEN ParseFail(p, e, SMF_ERR_SMPTE_OFF)
     ELSE ParseOk(p, [e EXCEPT !.status = SMF_TYPE_SMPTE, !.delta = delta, !.tcode = <<tc>>])

\* parseEvent, meta-event 0x54 (SMPTE Offset)
parseSMPTE(p0, e, delta) ==
  LET tc == [hour |-> p0.bptr[1], minute |-> p0.bptr[2], second |-> p0.bptr[3],
             frame |-> p0.bptr[4], ff |-> p0.bptr[5]]
      p == [p0 EXCEPT !.rTC = tc]
      fr == p.head.frame_rate
  IN IF p0.blen # 5 THEN ParseFail(p0, e, SMF_ERR_SMPTE_OFF)
     ELSE IF tc.hour > 23 \/ tc.minute > 59 \/ tc.second > 59 \/ tc.frame > 29 \/ tc.ff > 99
       THEN ParseFail(p, e, SMF_ERR_SMPTE_OFF)
     ELSE IF fr > 0 /\ fr < 29 /\ tc.frame >= fr THEN ParseFail(p, e, SMF_ERR_SMPTE_OFF)
     ELSE IF fr = 29 /\ (tc.minute % 10) # 0 /\ tc.frame < 2
       THEN ParseFail(p, e, SMF_ERR_SMPTE_OFF)
     ELSE ParseOk(p, [e EXCEPT !.status = SMF_TYPE_SMPTE, !.delta = delta, !.tcode = <<tc>>])

\* parseEvent, meta-event 0x58, without the test of the decoded denominator
\* against SMF_MAX_TIME_DENOM
parseTimeSig_wide(p0, e, delta) ==
  LET ts0 == [numerator |-> p0.bptr[1], denominator |-> p0.bptr[2],
              click |-> p0.bptr[3], beat_unit |-> p0.bptr[4]]
      p1 == [p0 EXCEPT !.rTS = ts0]
      ts == [ts0 EXCEPT !.denominator = 2 ^ ts0.denominator]
      p2 == [p0 EXCEPT !.rTS = ts]
  IN IF p0.blen # 4 THEN ParseFail(p0, e, SMF_ERR_TIME_SIG)
     ELSE IF ts0.numerator < 1 \/ ts0.click < 1 \/ ts0.beat_unit < 1
       THEN ParseFail(p1, e, SMF_ERR_TIME_SIG)
     ELSE IF ts0.denominator > 15 THEN ParseFail(p1, e, SMF_ERR_TIME_SIG)
     ELSE ParseOk(p2, [e EXCEPT !.status = SMF_TYPE_TIME_SIG, !.delta = delta, !.tsig = <<ts>>])

\* parseEvent, meta-event 0x58 (Time Signature)
parseTimeSig(p0, e, delta) ==
  LET ts0 == [numerator |-> p0.bptr[1], denominator |-> p0.bptr[2],
              click |-> p0.bptr[3], beat_unit |-> p0.bptr[4]]
      p1 == [p0 EXCEPT !.rTS = ts0]
      ts == [ts0 EXCEPT !.denominator = 2 ^ ts0.denominator]
      p2 == [p0 EXCEPT !.rTS = ts]
  IN IF p0.blen # 4 THEN ParseFail(p0, e, SMF_ERR_TIME_SIG)
     ELSE IF ts0.numerator < 1 \/ ts0.click < 1 \/ ts0.beat_unit < 1
       THEN ParseFail(p1, e, SMF_ERR_TIME_SIG)
     ELSE IF ts0.denominator > 15 THEN ParseFail(p1, e, SMF_ERR_TIME_SIG)
     ELSE IF ts.denominator > SMF_MAX_TIME_DENOM THEN ParseFail(p2, e, SMF_ERR_TIME_SIG)
     ELSE ParseOk(p2, [e EXCEPT !.status = SMF_TYPE_TIME_SIG, !.delta = delta, !.tsig = <<ts>>])

\* parseEvent, meta-event 0x59, with the key byte taken unsigned
parseKeySig_unsigned(p0, e, delta) ==
  LET k0 == p0.bptr[1]
      ks == [key |-> k0, is_minor |-> p0.bptr[2]]
      p == [p0 EXCEPT !.rKS = ks]
  IN IF p0.blen # 2 THEN ParseFail(p0, e, SMF_ERR_KEY_SIG)
     ELSE IF ks.key < SMF_MIN_KEYSIG \/ ks.key > SMF_MAX_KEYSIG
       THEN ParseFail(p, e, SMF_ERR_KEY_SIG)
     ELSE IF ks.is_minor # 1 /\ ks.is_minor # 0 THEN ParseFail(p, e, SMF_ERR_KEY_SIG)
     ELSE ParseOk(p, [e EXCEPT !.status = SMF_TYPE_KEY_SIG, !.delta = delta, !.ksig = <<ks>>])

\* parseEvent, meta-event 0x59 (Key Signature)
parseKeySig(p0, e, delta) ==
  LET k0 == p0.bptr[1]
      ks == [key |-> IF k0 > 127 THEN k0 - 256 ELSE k0, is_minor |-> p0.bptr[2]]
      p == [p0 EXCEPT !.rKS = ks]
  IN IF p0.blen # 2 THEN ParseFail(p0, e, SMF_ERR_KEY_SIG)
     ELSE IF ks.key < SMF_MIN_KEYSIG \/ ks.key > SMF_MAX_KEYSIG
       THEN ParseFail(p, e, SMF_ERR_KEY_SIG)
     ELSE IF ks.is_minor # 1 /\ ks.is_minor # 0 THEN ParseFail(p, e, SMF_ERR_KEY_SIG)
     ELSE ParseOk(p, [e EXCEPT !.status = SMF_TYPE_KEY_SIG, !.delta = delta, !.ksig = <<ks>>])

\* parseMeta taking the required payload lengths as minimum lengths
parseMeta_atLeast(p, e, a, b, delta) ==
  IF a = -1 \/ b # -1 THEN ParseFail(Fault(p, 914), e, 0)
  ELSE IF a = 0
    THEN IF p.blen < 2 THEN ParseFail(p, e, SMF_ERR_SEQ_NUM)
         ELSE ParseOk(p, [e EXCEPT !.seq_num = (p.bptr[1] * 256) + p.bptr[2],
                                   !.status = SMF_TYPE_SEQ_NUM, !.delta = delta])
  ELSE IF a >= 1 /\ a <= 7
    THEN ParseOk(p, [WithBuffer(e, p) EXCEPT !.status = SMF_TYPE_TEXT, !.delta = delta,
                                             !.txtype = a])
  ELSE IF a = 32
    THEN IF p.blen < 1 THEN ParseFail(p, e, SMF_ERR_CH_PREFIX)
         ELSE IF p.bptr[1] < 0 \/ p.bptr[1] > 15 THEN ParseFail(p, e, SMF_ERR_CH_PREFIX)
         ELSE ParseOk(p, [e EXCEPT !.status = SMF_TYPE_CH_PREFIX, !.delta = delta,
                                   !.ch = p.bptr[1]])
  ELSE IF a = 47
    THEN IF p.blen # 0 THEN ParseFail(p, e, SMF_ERR_BAD_EOT)
         ELSE IF p.ckrem # 0 THEN ParseFail(Fault(p, 992), e, 0)
         ELSE ParseOk([p EXCEPT !.ckrem = -1],
                      [e EXCEPT !.status = SMF_TYPE_END_TRACK, !.delta = delta])
  ELSE IF a = 81
    THEN IF p.blen < 3 THEN ParseFail(p, e, SMF_ERR_SET_TEMPO)
         ELSE IF p.bptr[1] = 0 /\ p.bptr[2] = 0 /\ p.bptr[3] = 0
           THEN ParseFail(p, e, SMF_ERR_SET_TEMPO)
         ELSE ParseOk(p, [e EXCEPT !.status = SMF_TYPE_TEMPO, !.delta = delta,
                !.beat_dur = (p.bptr[1] * 65536) + (p.bptr[2] * 256) + p.bptr[3]])
  ELSE IF a = 84 THEN parseSMPTE(p, e, delta)
  ELSE IF a = 88 THEN parseTimeSig(p, e, delta)
  ELSE IF a = 89 THEN parseKeySig(p, e, delta)
  ELSE ParseOk(p, [WithBuffer(e, p) EXCEPT !.status = SMF_TYPE_META, !.delta = delta,
                                           !.meta_type = a])

\* parseEvent, the branch of a meta-event (ev = 0xff) of type a
parseMeta(p, e, a, b, delta) ==
  IF a = -1 \/ b # -1 THEN ParseFail(Fault(p, 914), e, 0)
  ELSE IF a = 0
    THEN IF p.blen # 2 THEN ParseFail(p, e, SMF_ERR_SEQ_NUM)
         ELSE ParseOk(p, [e EXCEPT !.seq_num = (p.bptr[1] * 256) + p.bptr[2],
                                   !.status = SMF_TYPE_SEQ_NUM, !.delta = delta])
  ELSE IF a >= 1 /\ a <= 7
    THEN ParseOk(p, [WithBuffer(e, p) EXCEPT !.status = SMF_TYPE_TEXT, !.delta = delta,
                                             !.txtype = a])
  ELSE IF a = 32
    THEN IF p.blen # 1 THEN ParseFail(p, e, SMF_ERR_CH_PREFIX)
         ELSE IF p.bptr[1] < 0 \/ p.bptr[1] > 15 THEN ParseFail(p, e, SMF_ERR_CH_PREFIX)
         ELSE ParseOk(p, [e EXCEPT !.status = SMF_TYPE_CH_PREFIX, !.delta = delta,
                                   !.ch = p.bptr[1]])
  ELSE IF a = 47
    THEN IF p.blen # 0 THEN ParseFail(p, e, SMF_ERR_BAD_EOT)
         ELSE IF p.ckrem # 0 THEN ParseFail(Fault(p, 992), e, 0)
         ELSE ParseOk([p EXCEPT !.ckrem = -1],
                      [e EXCEPT !.status = SMF_TYPE_END_TRACK, !.delta = delta])
  ELSE IF a = 81
    THEN IF p.blen # 3 THEN ParseFail(p, e, SMF_ERR_SET_TEMPO)
         ELSE IF p.bptr[1] = 0 /\ p.bptr[2] = 0 /\ p.bptr[3] = 0
           THEN ParseFail(p, e, SMF_ERR_SET_TEMPO)
         ELSE ParseOk(p, [e EXCEPT !.status = SMF_TYPE_TEMPO, !.delta = delta,
                !.beat_dur = (p.bptr[1] * 65536) + (p.bptr[2] * 256) + p.bptr[3]])
  ELSE IF a = 84 THEN parseSMPTE(p, e, delta)
  ELSE IF a = 88 THEN parseTimeSig(p, e, delta)
  ELSE IF a = 89 THEN parseKeySig(p, e, delta)
  ELSE ParseOk(p, [WithBuffer(e, p) EXCEPT !.status = SMF_TYPE_META, !.delta = delta,
                                           !.meta_type = a])

\* parseEvent, the branch of a MIDI channel message (0x80 <= ev <= 0xef)
\* parseMidi without the test of the "B" parameter: the fault
\* C17_ChannelRanges has to detect
parseMidi_anyB(p, e, ev, a, b, delta) ==
  LET msg == (ev \div 16) * 16
      ch == ev % 16
      e1 == [e EXCEPT !.delta = delta, !.ch = ch]
  IN IF (msg = 192 \/ msg = 208) /\ (a = -1 \/ b # -1) THEN ParseFail(Fault(p, 1214), e, 0)
     ELSE IF ~(msg = 192 \/ msg = 208) /\ (a = -1 \/ b = -1)
       THEN ParseFail(Fault(p, 1218), e, 0)
     ELSE IF a >= 0 /\ a > 127 THEN ParseFail(p, e, SMF_ERR_MIDI_DATA)
     ELSE IF msg = 128
       THEN ParseOk(p, [e1 EXCEPT !.status = SMF_TYPE_NOTE_OFF, !.key = a, !.val = b])
     ELSE IF msg = 144
       THEN ParseOk(p, [e1 EXCEPT !.status = SMF_TYPE_NOTE_ON, !.key = a, !.val = b])
     ELSE IF msg = 160
       THEN ParseOk(p, [e1 EXCEPT !.status = SMF_TYPE_KEY_AFTERTOUCH, !.key = a, !.val = b])
     ELSE IF msg = 176
       THEN ParseOk(p, [e1 EXCEPT !.status = SMF_TYPE_CONTROL, !.ctl = a, !.val = b])
     ELSE IF msg = 192
       THEN ParseOk(p, [e1 EXCEPT !.status = SMF_TYPE_PROGRAM, !.val = a])
     ELSE IF msg = 208
       THEN ParseOk(p, [e1 EXCEPT !.status = SMF_TYPE_CH_AFTERTOUCH, !.val = a])
     ELSE IF msg = 224
       THEN ParseOk(p, [e1 EXCEPT !.status = SMF_TYPE_PITCH_BEND,
                                  !.bend = ((b * 128) + a) - 8192])
     ELSE ParseFail(Fault(p, 1276), e, 0)

\* parseMidi returning a NOTE_ON of velocity 0 as a NOTE_OFF
parseMidi_release(p, e, ev, a, b, delta) ==
  LET msg == (ev \div 16) * 16
      ch == ev % 16
      e1 == [e EXCEPT !.delta = delta, !.ch = ch]
  IN IF (msg = 192 \/ msg = 208) /\ (a = -1 \/ b # -1) THEN ParseFail(Fault(p, 1214), e, 0)
     ELSE IF ~(msg = 192 \/ msg = 208) /\ (a = -1 \/ b = -1)
       THEN ParseFail(Fault(p, 1218), e, 0)
     ELSE IF a >= 0 /\ a > 127 THEN ParseFail(p, e, SMF_ERR_MIDI_DATA)
     ELSE IF b >= 0 /\ b > 127 THEN ParseFail(p, e, SMF_ERR_MIDI_DATA)
     ELSE IF msg = 128 \/ (msg = 144 /\ b = 0)
       THEN ParseOk(p, [e1 EXCEPT !.status = SMF_TYPE_NOTE_OFF, !.key = a, !.val = b])
     ELSE IF msg = 144
       THEN ParseOk(p, [e1 EXCEPT !.status = SMF_TYPE_NOTE_ON, !.key = a, !.val = b])
     ELSE IF msg = 160
       THEN ParseOk(p, [e1 EXCEPT !.status = SMF_TYPE_KEY_AFTERTOUCH, !.key = a, !.val = b])
     ELSE IF msg = 176
       THEN ParseOk(p, [e1 EXCEPT !.status = SMF_TYPE_CONTROL, !.ctl = a, !.val = b])
     ELSE IF msg = 192
       THEN ParseOk(p, [e1 EXCEPT !.status = SMF_TYPE_PROGRAM, !.val = a])
     ELSE IF msg = 208
       THEN ParseOk(p, [e1 EXCEPT !.status = SMF_TYPE_CH_AFTERTOUCH, !.val = a])
     ELSE IF msg = 224
       THEN ParseOk(p, [e1 EXCEPT !.status = SMF_TYPE_PITCH_BEND,
                                  !.bend = ((b * 128) + a) - 8192])
     ELSE ParseFail(Fault(p, 1276), e, 0)

parseMidi(p, e, ev, a, b, delta) ==
  LET msg == (ev \div 16) * 16
      ch == ev % 16
      e1 == [e EXCEPT !.delta = delta, !.ch = ch]
  IN IF (msg = 192 \/ msg = 208) /\ (a = -1 \/ b # -1) THEN ParseFail(Fault(p, 1214), e, 0)
     ELSE IF ~(msg = 192 \/ msg = 208) /\ (a = -1 \/ b = -1)
       THEN ParseFail(Fault(p, 1218), e, 0)
     ELSE IF a >= 0 /\ a > 127 THEN ParseFail(p, e, SMF_ERR_MIDI_DATA)
     ELSE IF b >= 0 /\ b > 127 THEN ParseFail(p, e, SMF_ERR_MIDI_DATA)
     ELSE IF msg = 128
       THEN ParseOk(p, [e1 EXCEPT !.status = SMF_TYPE_NOTE_OFF, !.key = a, !.val = b])
     ELSE IF msg = 144
       THEN ParseOk(p, [e1 EXCEPT !.status = SMF_TYPE_NOTE_ON, !.key = a, !.val = b])
     ELSE IF msg = 160
       THEN ParseOk(p, [e1 EXCEPT !.status = SMF_TYPE_KEY_AFTERTOUCH, !.key = a, !.val = b])
     ELSE IF msg = 176
       THEN ParseOk(p, [e1 EXCEPT !.status = SMF_TYPE_CONTROL, !.ctl = a, !.val = b])
     ELSE IF msg = 192
       THEN ParseOk(p, [e1 EXCEPT !.status = SMF_TYPE_PROGRAM, !.val = a])
     ELSE IF msg = 208
       THEN ParseOk(p, [e1 EXCEPT !.status = SMF_TYPE_CH_AFTERTOUCH, !.val = a])
     ELSE IF msg = 224
       THEN ParseOk(p, [e1 EXCEPT !.status = SMF_TYPE_PITCH_BEND,
                                  !.bend = ((b * 128) + a) - 8192])
     ELSE ParseFail(Fault(p, 1276), e, 0)

parseEvent(p, e, ev, a, b, delta) ==
  IF ev < 0 \/ ev > 255 THEN ParseFail(Fault(p, 869), e, 0)
  ELSE IF a < -1 \/ a > 255 THEN ParseFail(Fault(p, 872), e, 0)
  ELSE IF b < -1 \/ b > 255 THEN ParseFail(Fault(p, 875), e, 0)
  ELSE IF b >= 0 /\ a < 0 THEN ParseFail(Fault(p, 878), e, 0)
  ELSE IF delta < 0 \/ delta > SMF_MAX_VARINT THEN ParseFail(Fault(p, 881), e, 0)
  ELSE IF ev = 240 \/ ev = 247
    THEN IF a # -1 \/ b # -1 THEN ParseFail(Fault(p, 888), e, 0)
         ELSE ParseOk(p, [WithBuffer(e, p) EXCEPT
                !.status = IF ev = 240 THEN SMF_TYPE_SYSEX ELSE SMF_TYPE_SYSESC,
                !.delta = delta])
  ELSE IF ev = 255 THEN parseMeta(p, e, a, b, delta)
  ELSE IF ev >= 128 /\ ev <= 239 THEN parseMidi(p, e, ev, a, b, delta)
  ELSE ParseFail(p, e, SMF_ERR_BAD_EVENT)

\* the payload loops of readEvent: vl bytes from the chunk into the
\* buffer; the body after pushBuffer has returned u, and after the byte d
RECURSIVE PayloadLoop(_, _, _, _)
RECURSIVE PayloadPushed(_, _, _, _)
RECURSIVE PayloadGot(_, _, _, _)
PayloadPushed(u, s, vi, vl) ==
  IF u.status = 0 THEN [ps |-> u.ps, s |-> s, status |-> 0, err |-> SMF_ERR_BIG_PAYLOAD]
  ELSE PayloadLoop(u.ps, s, vi + 1, vl)

PayloadGot(p, d, vi, vl) ==
  IF d.c < 0
    THEN [ps |-> [p EXCEPT !.ckrem = d.rem], s |-> d.s, status |-> 0, err |-> d.err]
    ELSE PayloadPushed(pushBuffer([p EXCEPT !.ckrem = d.rem], d.c), d.s, vi, vl)

PayloadLoop(p, s, vi, vl) ==
  IF vi >= vl THEN [ps |-> p, s |-> s, status |-> 1, err |-> 0]
  ELSE PayloadGot(p, readChunkByte(s, p.ckrem), vi, vl)

\* The steps of readEvent.  Each takes and returns the locals of the
\* function, t = [ps, s, status, err, c, a, b, delta], and does nothing
\* once status is 0.

\* a byte r read from the chunk into the local f
EvGot(t, r, f) ==
  IF r.c < 0
    THEN [t EXCEPT !.ps.ckrem = r.rem, !.s = r.s, !.status = 0, !.err = r.err]
    ELSE [t EXCEPT !.ps.ckrem = r.rem, !.s = r.s, ![f] = r.c]

\* read the delta value
EvDeltaGot(t, d) ==
  IF d.v < 0
    THEN [t EXCEPT !.ps.ckrem = d.rem, !.s = d.s, !.status = 0, !.err = d.err]
    ELSE [t EXCEPT !.ps.ckrem = d.rem, !.s = d.s, !.delta = d.v]

EvDelta(t) == EvDeltaGot(t, readChunkVar(t.s, t.ps.ckrem))

\* read a byte to determine how to proceed
EvLead(t) ==
  IF t.status = 0 THEN t ELSE EvGot(t, readChunkByte(t.s, t.ps.ckrem), "c")

\* EvRunning taking the running status without keeping the byte read as the
\* "A" byte: the fault C16_RunningStatus has to detect
EvRunning_dropA(t) ==
  IF t.status = 0 \/ t.c >= 128 THEN t
  ELSE IF t.ps.run < 0 THEN [t EXCEPT !.status = 0, !.err = SMF_ERR_RUN_STATUS]
  ELSE [t EXCEPT !.c = t.ps.run]

\* a lead byte below 0x80 is the "A" byte under the running status
EvRunning(t) ==
  IF t.status = 0 \/ t.c >= 128 THEN t
  ELSE IF t.ps.run < 0 THEN [t EXCEPT !.status = 0, !.err = SMF_ERR_RUN_STATUS]
  ELSE [t EXCEPT !.a = t.c, !.c = t.ps.run]

\* read parameter "A" unless running status has already supplied it
EvParamA(t) ==
  IF t.a >= 0 THEN t ELSE EvGot(t, readChunkByte(t.s, t.ps.ckrem), "a")

\* EvParamB giving up on a bad "A" parameter before it reads "B"
EvParamB_early(t) ==
  IF t.status = 0 THEN t
  ELSE IF t.a > 127 THEN [t EXCEPT !.status = 0, !.err = SMF_ERR_MIDI_DATA]
  ELSE EvGot(t, readChunkByte(t.s, t.ps.ckrem), "b")

EvParamB(t) ==
  IF t.status = 0 THEN t ELSE EvGot(t, readChunkByte(t.s, t.ps.ckrem), "b")

\* a variable-length size and then the payload, into the data buffer
EvPayloadGot(t, l) ==
  IF l.status = 0 THEN [t EXCEPT !.ps = l.ps, !.s = l.s, !.status = 0, !.err = l.err]
  ELSE [t EXCEPT !.ps = l.ps, !.s = l.s]

EvPayloadLen(t, v) ==
  IF v.v < 0
    THEN [t EXCEPT !.ps.ckrem = v.rem, !.s = v.s, !.status = 0, !.err = v.err]
    ELSE EvPayloadGot(t, PayloadLoop([t.ps EXCEPT !.ckrem = v.rem], v.s, 0, v.v))

EvPayload(t) ==
  IF t.status = 0 THEN t ELSE EvPayloadLen(t, readChunkVar(t.s, t.ps.ckrem))

\* the meta-event type goes into "A" (no running status here)
EvMetaType(t) == EvGot(t, readChunkByte(t.s, t.ps.ckrem), "a")

\* read the whole message according to the status byte
EvBody(t) ==
  IF t.status = 0 THEN t
  ELSE IF (t.c >= 128 /\ t.c <= 191) \/ (t.c >= 224 /\ t.c <= 239)
    THEN EvParamB(EvParamA(t))
  ELSE IF t.c >= 192 /\ t.c <= 223 THEN EvParamA(t)
  ELSE IF t.c = 240 \/ t.c = 247 THEN EvPayload(t)
  ELSE IF t.c = 255 THEN EvPayload(EvMetaType(t))
  ELSE [t EXCEPT !.status = 0, !.err = SMF_ERR_BAD_EVENT]

\* EvUpdateRun keeping the running status over sysex and meta events
EvUpdateRun_kept(t) ==
  IF t.status = 0 THEN t
  ELSE IF t.c >= 128 /\ t.c <= 239 THEN [t EXCEPT !.ps.run = t.c]
  ELSE t

\* EvUpdateRun taking every lead byte as the running status
EvUpdateRun_any(t) ==
  IF t.status = 0 THEN t ELSE [t EXCEPT !.ps.run = t.c]

\* a MIDI message status byte becomes the running status, anything else
\* clears it
EvUpdateRun(t) ==
  IF t.status = 0 THEN t
  ELSE IF t.c >= 128 /\ t.c <= 239 THEN [t EXCEPT !.ps.run = t.c]
  ELSE [t EXCEPT !.ps.run = -1]

\* EvSkipped leaving the chunk remainder as it was before the skip
EvSkipped_open(t, k) ==
  IF k.status = 0 THEN [t EXCEPT !.s = k.s, !.status = 0, !.err = SMF_ERR_IO]
  ELSE [t EXCEPT !.s = k.s]

\* readEvent after the skip of the rest of the track has returned k
EvSkipped(t, k) ==
  IF k.status = 0 THEN [t EXCEPT !.s = k.s, !.status = 0, !.err = SMF_ERR_IO]
  ELSE [t EXCEPT !.s = k.s, !.ps.ckrem = 0]

\* EvSkipRest closing the track without the skip: the fault C5_TrackLength
\* has to detect
EvSkipRest_none(t) ==
  IF t.status = 0 \/ t.a # 47 THEN t ELSE [t EXCEPT !.ps.ckrem = 0]

\* "for the End Of Track meta-event (type 2F), skip any remaining data in
\* the track": the test is on the "A" parameter alone
EvSkipRest(t) ==
  IF t.status = 0 \/ t.a # 47 THEN t
  ELSE EvSkipped(t, smfsource_skip(t.s, t.ps.ckrem))

\* EvLocals leaving the data buffer as the previous event filled it
EvLocals_filled(p0, s0) ==
  [ps |-> p0, s |-> s0, status |-> 1,
   err |-> 0, c |-> 0, a |-> -1, b |-> -1, delta |-> 0]

\* the locals of readEvent at its start, the data buffer reset
EvLocals(p0, s0) ==
  [ps |-> [p0 EXCEPT !.blen = 0, !.bptr = <<>>], s |-> s0, status |-> 1,
   err |-> 0, c |-> 0, a |-> -1, b |-> -1, delta |-> 0]

\* the results of parseEvent (r) as readEvent returns them
EvParsed(s, r) ==
  [ps |-> r.ps, s |-> s, ent |-> r.ent, status |-> r.status, err |-> r.err]

\* "if we got here successfully, pass through to parsing function"
EvParse(t, e) ==
  IF t.status = 0 THEN [ps |-> t.ps, s |-> t.s, ent |-> e, status |-> 0, err |-> t.err]
  ELSE EvParsed(t.s, parseEvent(t.ps, e, t.c, t.a, t.b, t.delta))

readEvent(p0, e, s0) ==
  IF p0.status # 1 \/ p0.ckrem < 0
    THEN [ps |-> Fault(p0, 1337), s |-> s0, ent |-> e, status |-> 0, err |-> 0]
    ELSE EvParse(EvSkipRest(EvUpdateRun(EvBody(EvRunning(EvLead(EvDelta(
                   EvLocals(p0, s0))))))), e)

\* ReadResult with the error code left out of the parser status: the fault
\* C1_ErrorAbsorbing has to detect
ReadResult_forget(p, s, e, status, err_code) ==
  IF status # 0 \/ p.fault # 0 THEN [ps |-> p, s |-> s, ent |-> e]
  ELSE IF err_code >= 0 THEN [ps |-> Fault(p, 2235), s |-> s, ent |-> e]
  ELSE [ps |-> p, s |-> s, ent |-> [e EXCEPT !.status = err_code]]

\* the end of smfparse_read: a failure goes into the entity and the parser
ReadResult(p, s, e, status, err_code) ==
  IF status # 0 \/ p.fault # 0 THEN [ps |-> p, s |-> s, ent |-> e]
  ELSE IF err_code >= 0 THEN [ps |-> Fault(p, 2235), s |-> s, ent |-> e]
  ELSE [ps |-> [p EXCEPT !.status = err_code], s |-> s,
        ent |-> [e EXCEPT !.status = err_code]]

\* smfparse_read, "we are in initial state, so read the header chunk"
ReadInitialGot(p, e, h) ==
  IF h.status = 0 THEN ReadResult(p, h.s, e, 0, h.err)
  ELSE ReadResult([p EXCEPT !.head = h.ph[1], !.status = 1, !.rHead = h.ph[1]], h.s,
                  [e EXCEPT !.status = SMF_TYPE_HEADER, !.pHead = h.ph], 1, 0)

ReadInitial(p, s, e) == ReadInitialGot(p, e, readHeaderChunk(s))

\* ReadForeign counting the foreign chunk as a track: the fault
\* C4_TrackCount has to detect
ReadForeign_counted(p, e, type, k) ==
  IF k.status = 0 THEN [ps |-> [p EXCEPT !.status = SMF_ERR_IO], s |-> k.s,
                        ent |-> [e EXCEPT !.status = SMF_ERR_IO]]
  ELSE [ps |-> [p EXCEPT !.trkcount = @ + 1], s |-> k.s,
        ent |-> [e EXCEPT !.status = SMF_TYPE_CHUNK, !.chunk_type = type]]

\* smfparse_read, a chunk that is neither a track nor a header, skipped (k)
ReadForeign(p, e, type, k) ==
  IF k.status = 0 THEN ReadResult(p, k.s, e, 0, SMF_ERR_IO)
  ELSE ReadResult(p, k.s, [e EXCEPT !.status = SMF_TYPE_CHUNK, !.chunk_type = type], 1, 0)

\* ReadOutsideGot with a track chunk left closed (no chunk remainder set):
\* the fault C3_Grammar has to detect
ReadOutsideGot_notOpen(p, e, h) ==
  IF h.status = 0 THEN ReadResult(p, h.s, e, 0, h.err)
  ELSE IF h.type = TYPE_MTrk
    THEN ReadResult([p EXCEPT !.trkcount = @ + 1, !.run = -1],
                    h.s, [e EXCEPT !.status = SMF_TYPE_BEGIN_TRACK], 1, 0)
  ELSE IF h.type = TYPE_MThd THEN ReadResult(p, h.s, e, 0, SMF_ERR_MULTI_HEAD)
  ELSE ReadForeign(p, e, h.type, smfsource_skip(h.s, h.len))

\* ReadOutsideGot taking a second header chunk for a chunk it does not know
ReadOutsideGot_headSkipped(p, e, h) ==
  IF h.status = 0 THEN ReadResult(p, h.s, e, 0, h.err)
  ELSE IF h.type = TYPE_MTrk
    THEN ReadResult([p EXCEPT !.trkcount = @ + 1, !.ckrem = h.len, !.run = -1],
                    h.s, [e EXCEPT !.status = SMF_TYPE_BEGIN_TRACK], 1, 0)
  ELSE ReadForeign(p, e, h.type, smfsource_skip(h.s, h.len))

\* ReadOutsideGot taking the end of the input at a chunk header for the end
\* of the file
ReadOutsideGot_graceful(p, e, h) ==
  IF h.status = 0
    THEN IF h.err = SMF_ERR_EOF
           THEN ReadResult([p EXCEPT !.status = 2], h.s,
                           [e EXCEPT !.status = SMF_TYPE_EOF], 1, 0)
           ELSE ReadResult(p, h.s, e, 0, h.err)
  ELSE IF h.type = TYPE_MTrk
    THEN ReadResult([p EXCEPT !.trkcount = @ + 1, !.ckrem = h.len, !.run = -1],
                    h.s, [e EXCEPT !.status = SMF_TYPE_BEGIN_TRACK], 1, 0)
  ELSE IF h.type = TYPE_MThd THEN ReadResult(p, h.s, e, 0, SMF_ERR_MULTI_HEAD)
  ELSE ReadForeign(p, e, h.type, smfsource_skip(h.s, h.len))

\* smfparse_read, after the chunk header h has been read
ReadOutsideGot(p, e, h) ==
  IF h.status = 0 THEN ReadResult(p, h.s, e, 0, h.err)
  ELSE IF h.type = TYPE_MTrk
    THEN ReadResult([p EXCEPT !.trkcount = @ + 1, !.ckrem = h.len, !.run = -1],
                    h.s, [e EXCEPT !.status = SMF_TYPE_BEGIN_TRACK], 1, 0)
  ELSE IF h.type = TYPE_MThd THEN ReadResult(p, h.s, e, 0, SMF_ERR_MULTI_HEAD)
  ELSE ReadForeign(p, e, h.type, smfsource_skip(h.s, h.len))

\* ReadOutside ending the file after the first track, whatever the header
\* declared: the fault C2_EofAbsorbing has to detect
ReadOutside_early(p, s, e) ==
  IF p.trkcount < 1 THEN ReadOutsideGot(p, e, readChunkHead(s))
  ELSE ReadResult([p EXCEPT !.status = 2], s, [e EXCEPT !.status = SMF_TYPE_EOF], 1, 0)

\* ReadOutside reporting one more chunk, instead of the end of the file,
\* once the declared tracks have been read
ReadOutside_noEof(p, s, e) ==
  IF p.trkcount < p.head.nTracks THEN ReadOutsideGot(p, e, readChunkHead(s))
  ELSE ReadResult(p, s, [e EXCEPT !.status = SMF_TYPE_CHUNK], 1, 0)

\* smfparse_read, "we've read the header but are outside of any chunk"
ReadOutside(p, s, e) ==
  IF p.trkcount < p.head.nTracks THEN ReadOutsideGot(p, e, readChunkHead(s))
  ELSE ReadResult([p EXCEPT !.status = 2], s, [e EXCEPT !.status = SMF_TYPE_EOF], 1, 0)

\* smfparse_read, "we are in a track chunk, so use the readEvent function"
ReadInside(r) == ReadResult(r.ps, r.s, r.ent, r.status, r.err)

\* smfparse_read filling in the record as the previous call left it
smfparse_read_stale(p, s) ==
  IF p.status < 0 THEN ReadResult(p, s, ent, 0, p.status)
  ELSE IF p.status = 0 THEN ReadInitial(p, s, ent)
  ELSE IF p.status = 2
    THEN ReadResult(p, s, [ent EXCEPT !.status = SMF_TYPE_EOF], 1, 0)
  ELSE IF p.status = 1 /\ p.ckrem < 0 THEN ReadOutside(p, s, ent)
  ELSE IF p.status = 1 /\ p.ckrem >= 0 THEN ReadInside(readEvent(p, ent, s))
  ELSE [ps |-> Fault(p, 2228), s |-> s, ent |-> ent]

\* smfparse_read(ps, pEnt, pSrc): the new parser, source and entity
smfparse_read(p, s) ==
  IF p.status < 0 THEN ReadResult(p, s, EntityReset, 0, p.status)
  ELSE IF p.status = 0 THEN ReadInitial(p, s, EntityReset)
  ELSE IF p.status = 2
    THEN ReadResult(p, s, [EntityReset EXCEPT !.status = SMF_TYPE_EOF], 1, 0)
  ELSE IF p.status = 1 /\ p.ckrem < 0 THEN ReadOutside(p, s, EntityReset)
  ELSE IF p.status = 1 /\ p.ckrem >= 0 THEN ReadInside(readEvent(p, EntityReset, s))
  ELSE [ps |-> Fault(p, 2228), s |-> s, ent |-> EntityReset]

(***************************************************************************)
(* The input alphabet: the pieces a file is made of                        *)
(***************************************************************************)
MThd == <<\H4D, \H54, \H68, \H64>>
MTrk == <<\H4D, \H54, \H72, \H6B>>
XYZZ == <<\H58, \H59, \H5A, \H5A>>

Prefixes(q) == {SubSeq(q, 1, k) : k \in 0..Len(q)}

\* an MThd chunk header with its three fields
Hdr(len, fmt, ntrks, divhi, divlo) ==
  MThd \o <<0, 0, 0, len, 0, fmt, 0, ntrks, divhi, divlo>>

\* the headers after which the file goes on
CoreHeaders == {Hdr(6, 1, 2, 0, 96), Hdr(6, 0, 1, \HE3, 40)}

HeaderPieces ==
  Prefixes(Hdr(6, 1, 2, 0, 96)) \cup CoreHeaders
  \cup {Hdr(6, 0, 1, 0, 96), Hdr(6, 2, 1, \HE7, 40), Hdr(6, 1, 1, \HE3, 40),
        Hdr(7, 1, 1, 0, 96), Hdr(7, 1, 1, 0, 96) \o <<\HAA>>,
        MTrk \o <<0, 0, 0, 6, 0, 1, 0, 1, 0, 96>>,
        Hdr(5, 1, 1, 0, 96), Hdr(6, 3, 1, 0, 96), Hdr(6, 1, 0, 0, 96),
        Hdr(6, 0, 2, 0, 96), Hdr(6, 1, 1, 0, 0), Hdr(6, 1, 1, \H80, 1),
        Hdr(6, 1, 1, \HE7, 0), MThd \o <<\H80, 0, 0, 0>>}

\* the declared lengths of the track chunks (9: a track that holds an SMPTE
\* Offset event)
TrkLens == {0, 3, 4, 5, MaxTrkLen, 9}

\* the chunks after which the file goes on
CoreChunks ==
  {MTrk \o <<0, 0, 0, n>> : n \in TrkLens}
  \cup {XYZZ \o <<0, 0, 0, 0>>, XYZZ \o <<0, 0, 0, 2, \HDE, \HAD>>}

ChunkPieces ==
  CoreChunks
  \cup Prefixes(MTrk \o <<0, 0, 0, 4>>)
  \cup {MThd \o <<0, 0, 0, 6>>,
        XYZZ \o <<0, 0, 0, 0>>, XYZZ \o <<0, 0, 0, 2, \HDE, \HAD>>,
        XYZZ \o <<0, 0, 0, 2, \HDE>>,
        MTrk \o <<\H80, 0, 0, 0>>, XYZZ \o <<\H7F, \HFF, \HFF, \HFF, 1>>}

\* the events after which the file goes on
CoreEvents ==
  {<<0, \H90, \H3C, \H64>>, <<0, \H3C, 0>>, <<0, \H90, \H2F, \H40>>,
   <<0, \HFF, 1, 2, \H68, \H69>>, <<0, \HFF, \H2F, 0>>, <<0, \HFF, \H2F, 0, \HAA>>}

EventPieces ==
  CoreEvents \cup
  {<<0, \H90, \H3C, \H64>>, <<\H60, \H80, \H3C, \H40>>, <<0, \H3C, 0>>,
   <<0, \H2F, 0>>, <<0, \H90, \H2F, \H40>>, <<0, \HA1, 1, 2>>, <<0, \HB2, 7, \H7F>>,
   <<\H81, 0, \HC3, 5>>, <<\H81, \H80, 0, \HC3, 5>>, <<0, 9>>, <<0, \HD4, 9>>, <<0, \HE0, 0, \H40>>,
   <<0, \H90, \H80, 0>>, <<0, \H90, 0, \H80>>, <<0, \HF4>>,
   <<0, \H9F, \H7F, \H7F>>, <<0, \HEF, \H7F, \H7F>>, <<0, \HE0, 0, 0>>,
   <<0, \HE0, 0, \HFF>>, <<0, \HB0, 0, \HFF>>, <<0, \HA0, \HFF, 0>>, <<0, \HC0, \H80>>,
   <<0, \HDF, \H7F>>,
   <<\HFF, \HFF, \HFF, \HFF, 0>>, <<\HFF, \HFF, \HFF, \H7F, \H90, 1, 1>>,
   <<0, \HF0, 2, 1, \HF7>>, <<0, \HF7, 0>>,
   <<0, \HF0, \H80, \H80, \H80, \H80>>, <<0, \HF0, \H80, \H80, \H80, 0>>,
   <<0, \HFF, 1, \HFF, \HFF, \HFF, \HFF>>,
   <<0, \HFF, \H2F, 0>>, <<0, \HFF, \H2F, 0, \HAA>>, <<0, \HFF, \H2F, 0, \HAA, \HBB>>,
   <<0, \HFF, \H2F, 1, 0>>, <<0, \HFF, \H2F>>,
   <<0, \HFF, 0, 2, 1, 2>>, <<0, \HFF, 0, 1, 1>>, <<0, \HFF, 1, 2, \H68, \H69>>,
   <<0, \HFF, \H20, 1, 5>>, <<0, \HFF, \H20, 1, 16>>,
   <<0, \HFF, \H51, 3, 7, \HA1, \H20>>, <<0, \HFF, \H51, 3, 0, 0, 0>>,
   <<0, \HFF, \H54, 5, 1, 11, 3, 1, 0>>, <<0, \HFF, \H54, 5, 1, 10, 3, 24, 0>>,
   <<0, \HFF, \H54, 5, 24, 0, 0, 0, 0>>,
   <<0, \HFF, \H58, 4, 6, 3, 24, 8>>, <<0, \HFF, \H58, 4, 6, 11, 24, 8>>,
   <<0, \HFF, \H59, 2, \HFD, 1>>, <<0, \HFF, \H59, 2, 8, 0>>,
   <<0, \HFF, \H7F, 1, 0>>}

\* the pieces that may follow, by what the parser reads next
Pieces(p) ==
  IF p.status = 0 THEN HeaderPieces
  ELSE IF p.status = 1 /\ p.ckrem < 0 /\ p.trkcount < p.head.nTracks THEN ChunkPieces
  ELSE IF p.status = 1 /\ p.ckrem >= 0 THEN EventPieces
  ELSE {<<>>}

CorePieces(p) ==
  IF p.status = 0 THEN CoreHeaders
  ELSE IF p.status = 1 /\ p.ckrem < 0 /\ p.trkcount < p.head.nTracks THEN CoreChunks
  ELSE IF p.status = 1 /\ p.ckrem >= 0 THEN CoreEvents
  ELSE {<<>>}

Tails(s) == IF s.fptr > MaxLen THEN {"eof", "err"} ELSE {"more", "eof", "err"}

\* the sources the next call may find: the input is fixed a piece further
\* (the file goes on only after a core piece)
Feeds(s, core, pieces) ==
  IF s.tail # "more" THEN {s}
  ELSE {[s EXCEPT !.ahead = @ \o q, !.tail = tl] : q \in core, tl \in Tails(s)}
       \cup {[s EXCEPT !.ahead = @ \o q, !.tail = tl] :
                q \in pieces \ core, tl \in {"eof", "err"}}

\* the inputs of a source-only session
SrcFiles == Prefixes([i \in 1..MaxSrcLen |-> 10 * i])

(***************************************************************************)
(* The state machine                                                       *)
(***************************************************************************)

\* the counts of calls and callbacks are those of the current operation
Enter(s) ==
  [s EXCEPT !.starved = FALSE, !.nApi = 0, !.cbRead = 0, !.cbSkip = 0,
            !.cbRewind = 0, !.cbClose = 0, !.cbEof = FALSE, !.cbErr = FALSE,
            !.cbFail = FALSE, !.rdEof = FALSE, !.skipArg = -1]

\* The variable-length quantity at the head of the bytes w, read off the
\* bytes directly: n is the position of the first byte with the top bit clear
\* (0 when there is none among the first four), v the number whose base-128
\* digits, most significant first, are the low seven bits of bytes 1..n.
VarintLen(w) ==
  IF \E k \in 1..4 : k <= Len(w) /\ w[k] < 128
    THEN CHOOSE k \in 1..4 : /\ k <= Len(w) /\ w[k] < 128
                             /\ \A j \in 1..(k - 1) : w[j] >= 128
    ELSE 0

RECURSIVE VarintDigits(_, _)
VarintDigits(w, n) ==
  IF n = 0 THEN 0 ELSE (VarintDigits(w, n - 1) * 128) + (w[n] % 128)

\* `long`: the first four of the bytes w all have the top bit set
VarintAt(w) ==
  [n |-> VarintLen(w), v |-> IF VarintLen(w) = 0 THEN -1 ELSE VarintDigits(w, VarintLen(w)),
   long |-> Len(w) >= 4 /\ \A k \in 1..4 : w[k] >= 128]

NoVarint == [n |-> 0, v |-> -1, long |-> FALSE]

\* the bytes of w from position k on
From(w, k) == SubSeq(w, k, Len(w))

\* where the payload length of the event that follows a delta of n bytes
\* begins in w: after the status byte F0 or F7, or after FF and the type
\* byte; 0 when the event is not of these kinds
LengthPos(w, n) ==
  IF n = 0 \/ Len(w) <= n THEN 0
  ELSE IF w[n + 1] \in {\HF0, \HF7} THEN n + 2
  ELSE IF w[n + 1] = \HFF /\ Len(w) >= n + 2 THEN n + 3
  ELSE 0

\* the variable-length payload length of the event at the head of w, and the
\* number of bytes of w up to its fourth byte
LengthAt(w, at) ==
  IF at = 0 THEN [var |-> NoVarint, upto |-> 0]
  ELSE [var |-> VarintAt(From(w, at)), upto |-> at + 3]

\* the call before the last one when that was a skip: its name, argument, the
\* source state it was made in and the unread input it found
NoPrev == [op |-> "none", arg |-> 0, pre |-> SOURCE_STATE_NORMAL, pahead |-> <<>>]

NoCall == [op |-> "none", ret |-> 0, arg |-> 0, pre |-> SOURCE_STATE_NORMAL,
           pstatus |-> 0, pckrem |-> -1, ptrk |-> 0, pahead |-> <<>>, prev |-> NoPrev,
           var |-> NoVarint, lvar |-> [var |-> NoVarint, upto |-> 0]]

\* the entity stream so far: n non-error entities (counted up to 2), whether
\* a BEGIN_TRACK has been returned without its END_TRACK, the number of
\* BEGIN_TRACK entities, whether EOF has been returned, and for the last
\* BEGIN_TRACK the file position after it and the length its header declared;
\* afterEof is 1 once the read callback has returned EOF, 2 once the rewind
\* callback has been invoked after that, and 0 again once a rewind succeeds
MonInit == [n |-> 0, open |-> FALSE, begun |-> 0, eof |-> FALSE,
            trkStart |-> 0, trkDecl |-> 0, afterEof |-> 0]

AfterEof(m, s, ret) ==
  IF s.cbEof THEN 1
  ELSE IF s.cbRewind > 0 /\ ret = 1 THEN 0
  ELSE IF s.cbRewind > 0 /\ m.afterEof = 1 THEN 2
  ELSE m.afterEof

\* the length field of the 8-byte chunk header at the head of w
DeclaredLen(w) == (((((w[5] * 256) + w[6]) * 256) + w[7]) * 256) + w[8]

Observe(m, e, s, w) ==
  IF e.status < 0 THEN [m EXCEPT !.afterEof = AfterEof(m, s, 0)]
  ELSE [afterEof |-> AfterEof(m, s, 0),
        n |-> IF m.n < 2 THEN m.n + 1 ELSE m.n,
        open |-> IF e.status = SMF_TYPE_BEGIN_TRACK THEN TRUE
                 ELSE IF e.status = SMF_TYPE_END_TRACK THEN FALSE ELSE m.open,
        begun |-> IF e.status = SMF_TYPE_BEGIN_TRACK THEN m.begun + 1 ELSE m.begun,
        eof |-> m.eof \/ e.status = SMF_TYPE_EOF,
        trkStart |-> IF e.status = SMF_TYPE_BEGIN_TRACK THEN s.fptr ELSE m.trkStart,
        trkDecl |-> IF e.status = SMF_TYPE_BEGIN_TRACK THEN DeclaredLen(w) ELSE m.trkDecl]

Init ==
  /\ \E can_seek \in BOOLEAN : src = smfsource_new_handle(<<>>, "more", TRUE, can_seek)
  /\ ps = smfparse_alloc
  /\ ent = EntityReset
  /\ last = NoCall
  /\ mon = MonInit

\* one call of smfparse_read by the client, on the source s1, returns r
ReadReturn(s1, r) ==
  /\ ~r.s.starved
  /\ ps' = r.ps
  /\ src' = r.s
  /\ ent' = r.ent
  /\ last' = [op |-> "parse", ret |-> r.ent.status, arg |-> 0, pre |-> src.state,
              pstatus |-> ps.status, pckrem |-> ps.ckrem, ptrk |-> ps.trkcount,
              pahead |-> <<>>, prev |-> NoPrev,
              var |-> IF ps.status = 1 /\ ps.ckrem >= 0 THEN VarintAt(s1.ahead)
                      ELSE NoVarint,
              lvar |-> IF ps.status = 1 /\ ps.ckrem >= 0
                         THEN LengthAt(s1.ahead, LengthPos(s1.ahead, VarintLen(s1.ahead)))
                         ELSE LengthAt(s1.ahead, 0)]
  /\ mon' = Observe(mon, r.ent, r.s, s1.ahead)

Read ==
  /\ ps.fault = 0
  /\ \E s1 \in Feeds(src, CorePieces(ps), Pieces(ps)) :
       ReadReturn(s1, smfparse_read(ps, Enter(s1)))

ReadHeader == ps.status = 0 /\ Read
ReadChunk == ps.status = 1 /\ ps.ckrem < 0 /\ Read
ReadEvent == ps.status = 1 /\ ps.ckrem >= 0 /\ Read
ReadAfterEOF == ps.status = 2 /\ Read
ReadAfterError == ps.status < 0 /\ Read

Next == ReadHeader \/ ReadChunk \/ ReadEvent \/ ReadAfterEOF \/ ReadAfterError

Spec == Init /\ [][Next]_vars

(***************************************************************************)
(* A session on a source alone: the client calls the source functions      *)
(***************************************************************************)

SrcInit ==
  /\ \E file \in SrcFiles, tail \in {"eof", "err"},
        fRewind \in BOOLEAN, fClose \in BOOLEAN, fSkip \in BOOLEAN, is_owner \in BOOLEAN :
       src = smfsource_custom(file, tail, fRewind \/ fSkip, fRewind, fClose, fSkip, is_owner)
  /\ ps = smfparse_alloc
  /\ ent = EntityReset
  /\ last = NoCall
  /\ mon = MonInit

\* a source function op(arg) called in the current state returns ret
SrcReturn(op, arg, s, ret) ==
  /\ src' = s
  /\ last' = [NoCall EXCEPT !.op = op, !.ret = ret, !.arg = arg, !.pre = src.state,
                            !.pahead = IF op = "skip" THEN src.ahead ELSE <<>>,
                            !.prev = IF last.op = "skip"
                                       THEN [op |-> last.op, arg |-> last.arg,
                                             pre |-> last.pre, pahead |-> last.pahead]
                                       ELSE NoPrev]
  /\ mon' = [mon EXCEPT !.afterEof = AfterEof(mon, s, ret)]
  /\ UNCHANGED <<ps, ent>>

SrcReadReturn(r) == SrcReturn("read", 0, r.s, r.c)

SrcRead == /\ ~src.released
           /\ SrcReadReturn(smfsource_read(Enter(src)))

SrcSkipReturn(n, r) == SrcReturn("skip", n, r.s, r.status)

SrcSkip == /\ ~src.released
           /\ \E n \in 0..MaxSkip : SrcSkipReturn(n, smfsource_skip(Enter(src), n))

\* ok: whether the stream lets the rewind callback succeed
SrcRewindReturn(ok, r) == SrcReturn("rewind", IF ok THEN 1 ELSE 0, r.s, r.status)

SrcRewind == /\ ~src.released
             /\ \E ok \in BOOLEAN : SrcRewindReturn(ok, smfsource_rewind(Enter(src), ok))

SrcCanRewind == /\ ~src.released
                /\ SrcReturn("canRewind", 0, Enter(src), smfsource_canRewind(src))

\* ok: whether fclose succeeds
\* a close of NULL leaves the source object of the session as it is
SrcCloseReturn(ok, r) ==
  IF r.s = NULL THEN SrcReturn("closeNull", IF ok THEN 1 ELSE 0, Enter(src), r.status)
  ELSE SrcReturn("close", IF ok THEN 1 ELSE 0, r.s[1], r.status)

SrcClose == /\ ~src.released
            /\ \E ok \in BOOLEAN, pSrc \in {NULL, <<Enter(src)>>} :
                 SrcCloseReturn(ok, smfsource_close(pSrc, ok))

SrcNext == SrcRead \/ SrcSkip \/ SrcRewind \/ SrcCanRewind \/ SrcClose

SrcSpec == SrcInit /\ [][SrcNext]_vars

(***************************************************************************)
(* readChunkVar alone, applied to the encodings of given numbers           *)
(***************************************************************************)

\* the base-128 digits the sample numbers are made of
VarDigits == {0, 1, 64, 127}

\* the numbers of at most four base-128 digits over VarDigits: from 0 to
\* 2^28 - 1, of every encoded length
VarInputs ==
  {(((((a * 128) + b) * 128) + c) * 128) + d :
     a \in VarDigits, b \in VarDigits, c \in VarDigits, d \in VarDigits}

\* the standard encoding of n as a variable-length quantity: base-128 digits,
\* most significant first, no leading zero digit, the top bit set on every
\* byte but the last
RECURSIVE VarintHigh(_)
VarintHigh(m) ==
  IF m < 128 THEN <<128 + m>> ELSE VarintHigh(m \div 128) \o <<128 + (m % 128)>>

VarintEncode(n) ==
  IF n < 128 THEN <<n>> ELSE VarintHigh(n \div 128) \o <<n % 128>>

\* a number n has been chosen; nothing is written yet
VarInit ==
  /\ \E n \in VarInputs : last = [NoCall EXCEPT !.op = "number", !.arg = n]
  /\ \E can_seek \in BOOLEAN : src = smfsource_new_handle(<<>>, "eof", TRUE, can_seek)
  /\ ps = smfparse_alloc
  /\ ent = EntityReset
  /\ mon = MonInit

\* the encoding of n becomes the head of a chunk that holds `spare` bytes more
\* than the encoding, of a file that goes on with `rest` and then ends
VarWrite ==
  /\ last.op = "number"
  /\ \E spare \in 0..MaxSpare, rest \in {<<>>, <<\HFF>>}, tail \in {"eof", "err"} :
       /\ src' = [src EXCEPT !.ahead = VarintEncode(last.arg) \o rest,
                             !.orig = VarintEncode(last.arg) \o rest, !.tail = tail]
       /\ ps' = [ps EXCEPT !.status = 1, !.ckrem = Len(VarintEncode(last.arg)) + spare]
  /\ last' = [last EXCEPT !.op = "written"]
  /\ UNCHANGED <<ent, mon>>

\* readChunkVar(pSrc, &(ps->ckrem), pErr) returns r
VarReadReturn(r) ==
  /\ src' = r.s
  /\ ps' = [ps EXCEPT !.ckrem = r.rem]
  /\ last' = [last EXCEPT !.op = "readChunkVar", !.ret = r.v, !.pckrem = ps.ckrem,
                          !.pstatus = r.err]
  /\ UNCHANGED <<ent, mon>>

VarRead ==
  /\ last.op = "written"
  /\ VarReadReturn(readChunkVar(Enter(src), ps.ckrem))

VarNext == VarWrite \/ VarRead

VarSpec == VarInit /\ [][VarNext]_vars

(***************************************************************************)
(* Two sessions side by side: a file whose track holds a message under     *)
(* running status, and the same file with its status byte written out      *)
(***************************************************************************)

\* the channel messages that come first in the track and leave their status
\* byte as the running status
RunFirst ==
  {<<0, \H90, \H3C, \H64>>, <<0, \H80, \H3C, \H40>>, <<0, \HB2, 7, \H7F>>,
   <<0, \HC3, 5>>, <<0, \HD4, 9>>, <<0, \HE0, 0, \H40>>, <<0, \H90, \H2F, \H40>>}

\* the message under running status: its delta and its data bytes
RunOmitted ==
  {[delta |-> <<0>>, data |-> <<\H3C, 0>>], [delta |-> <<\H60>>, data |-> <<\H2F, \H40>>],
   [delta |-> <<\H81, 0>>, data |-> <<5>>], [delta |-> <<0>>, data |-> <<\H3C>>],
   [delta |-> <<0>>, data |-> <<0, \H7F>>]}

\* what follows it in the track
RunRest ==
  {<<>>, <<0, \HFF, \H2F, 0>>, <<0, \H3D, 0>>, <<0, \H3D, 0, 0, \HFF, \H2F, 0>>}

\* the length field of a chunk header
Len4(n) == <<n \div 16777216, (n \div 65536) % 256, (n \div 256) % 256, n % 256>>

\* the file with the status byte omitted (st = <<>>) or written (st = <<run>>)
RunFile(h, first, om, st, rest, slack) ==
  h \o MTrk \o Len4(Len(first \o om.delta \o st \o om.data \o rest) + slack)
    \o first \o om.delta \o st \o om.data \o rest

\* the two parsers and sources before the first read; `at` is the offset of
\* the message under running status, `run` the status byte it omits, and
\* `seen` becomes true when a call of smfparse_read begins to read an event
\* at that offset
RunInit ==
  /\ ps = smfparse_alloc
  /\ ent = EntityReset
  /\ \E h \in CoreHeaders, first \in RunFirst, om \in RunOmitted, rest \in RunRest,
        slack \in (-1)..MaxSlack, tail \in {"eof", "err"}, can_seek \in BOOLEAN :
       /\ src = smfsource_new_handle(RunFile(h, first, om, <<>>, rest, slack),
                                      tail, TRUE, can_seek)
       /\ mon = [s |-> smfsource_new_handle(
                         RunFile(h, first, om, <<first[2]>>, rest, slack),
                         tail, TRUE, can_seek),
                 ps |-> smfparse_alloc, ent |-> EntityReset]
       /\ last = [op |-> "none", at |-> Len(h) + 8 + Len(first), run |-> first[2],
                  from |-> 0, seen |-> FALSE]

\* smfparse_read is called once on each of the two files
RunReturn(r, q) ==
  /\ ps' = r.ps
  /\ src' = r.s
  /\ ent' = r.ent
  /\ mon' = [s |-> q.s, ps |-> q.ps, ent |-> q.ent]
  /\ last' = [last EXCEPT !.op = "pair", !.from = src.fptr,
                          !.seen = @ \/ (/\ src.fptr = last.at /\ ps.status = 1
                                         /\ ps.ckrem >= 0)]

RunRead ==
  /\ ps.fault = 0 /\ mon.ps.fault = 0
  /\ RunReturn(smfparse_read(ps, Enter(src)), smfparse_read(mon.ps, Enter(mon.s)))

RunNext == RunRead

RunSpec == RunInit /\ [][RunNext]_vars

(***************************************************************************)
(* A session in which the read of one sysex or meta event is followed step *)
(* by step: up to the payload length, the payload loop in blocks of        *)
(* PayloadBlock iterations, and the rest of readEvent and smfparse_read     *)
(***************************************************************************)

\* the i-th byte of the payload of the event
PayloadByte(i) == (i * 7) % 256

\* the bytes from + 1 .. to of the payload
PayloadBytes(from, to) == [k \in 1..(to - from) |-> PayloadByte(from + k)]

\* the events: delta and status byte (and meta type), then the payload
\* length; `cut` is the number of bytes by which the declared track length
\* falls short of the event
BufHeads ==
  {<<0, \HF0>>, <<0, \HF7>>, <<0, \HFF, 1>>, <<0, \HFF, \H7F>>, <<0, \HFF, \H51>>,
   <<0, \HFF, \H2F>>}

BufCases ==
  {[head |-> h, len |-> l, cut |-> c] :
     h \in BufHeads, l \in {0, 1, 3, BCAP_INIT + 1}, c \in {0, 1}}
  \cup {[head |-> <<0, \HF0>>, len |-> BCAP_MAX, cut |-> 0],
        [head |-> <<0, \HF0>>, len |-> BCAP_MAX + 1, cut |-> 0],
        [head |-> <<0, \HFF, 1>>, len |-> BCAP_MAX, cut |-> 0],
        [head |-> <<0, \HFF, \H7F>>, len |-> BCAP_MAX + 1, cut |-> 0],
        [head |-> <<0, \HFF, \H51>>, len |-> BCAP_MAX + 1, cut |-> 0]}

\* the bytes of the event in front of its payload
BufFront(k) == k.head \o VarintEncode(k.len)

\* the locals of readEvent other than the parser and the source, and the
\* locals vi and vl of its payload loop; pc is the position in readEvent
NoLocals == [pc |-> "idle", status |-> 1, err |-> 0, c |-> 0, a |-> -1, b |-> -1,
             delta |-> 0, vi |-> 0, vl |-> 0]

Locals(m, p, s) ==
  [ps |-> p, s |-> s, status |-> m.status, err |-> m.err, c |-> m.c, a |-> m.a,
   b |-> m.b, delta |-> m.delta]

\* the file so far, with the bytes q supplied next
Fed(s, q) == [s EXCEPT !.ahead = @ \o q]

\* the source is the standard input, as in midiwalk
BufInit ==
  /\ src = smfsource_new_handle(<<>>, "more", FALSE, FALSE)
  /\ ps = smfparse_alloc
  /\ ent = EntityReset
  /\ mon = NoLocals
  /\ \E k \in BufCases : last = [op |-> "none", case |-> k]

\* smfparse_read returns the header, then the BEGIN_TRACK of a track of the
\* declared length
BufOutsideReturn(r) ==
  /\ ps' = r.ps
  /\ src' = r.s
  /\ ent' = r.ent
  /\ last' = [last EXCEPT !.op = "parse"]
  /\ UNCHANGED mon

BufReadOutside ==
  /\ mon.pc = "idle" /\ ps.fault = 0
  /\ \/ /\ ps.status = 0
        /\ BufOutsideReturn(smfparse_read(ps, Enter(Fed(src, Hdr(6, 0, 1, 0, 96)))))
     \/ /\ ps.status = 1 /\ ps.ckrem < 0 /\ ps.trkcount = 0
        /\ BufOutsideReturn(smfparse_read(ps, Enter(Fed(src,
               MTrk \o Len4((Len(BufFront(last.case)) + last.case.len) - last.case.cut)))))

\* readEvent from its start to the payload length v of the event
BufLength(t, v) ==
  IF t.status = 0 THEN [t |-> t, vl |-> 0]
  ELSE IF v.v < 0
    THEN [t |-> [t EXCEPT !.ps.ckrem = v.rem, !.s = v.s, !.status = 0, !.err = v.err],
          vl |-> 0]
    ELSE [t |-> [t EXCEPT !.ps.ckrem = v.rem, !.s = v.s], vl |-> v.v]

BufType(t) == IF t.status # 0 /\ t.c = 255 THEN EvMetaType(t) ELSE t

BufFrontRead(t) == BufLength(t, readChunkVar(t.s, t.ps.ckrem))

\* the locals are kept for the next step
BufKeep(pc, t, vi, vl) ==
  /\ ps' = t.ps
  /\ src' = t.s
  /\ mon' = [pc |-> IF t.status = 0 \/ vi >= vl THEN "tail" ELSE pc,
             status |-> t.status, err |-> t.err, c |-> t.c, a |-> t.a, b |-> t.b,
             delta |-> t.delta, vi |-> vi, vl |-> vl]

BufEventHeadReturn(r) ==
  /\ BufKeep("payload", r.t, 0, r.vl)
  /\ ent' = EntityReset
  /\ last' = [last EXCEPT !.op = "head"]

\* smfparse_read inside the track: the entity is reset and readEvent reads
\* the delta, the status byte, the meta type and the payload length
BufEventHead ==
  /\ mon.pc = "idle" /\ ps.fault = 0 /\ ps.status = 1 /\ ps.ckrem >= 0
  /\ BufEventHeadReturn(BufFrontRead(BufType(EvRunning(EvLead(EvDelta(
        EvLocals(ps, Enter(Fed(src, BufFront(last.case))))))))))

\* the end of the block of iterations that begins at vi
BlockEnd(vi, vl) == IF vi + PayloadBlock < vl THEN vi + PayloadBlock ELSE vl

\* iterations vi .. BlockEnd(vi, vl) - 1 of the payload loop
BufPayloadReturn(t) ==
  /\ BufKeep("payload", t, BlockEnd(mon.vi, mon.vl), mon.vl)
  /\ last' = [last EXCEPT !.op = "payload"]
  /\ UNCHANGED ent

BufPayload ==
  /\ mon.pc = "payload"
  /\ BufPayloadReturn(EvPayloadGot(Locals(mon, ps, src),
        PayloadLoop(ps, Fed(src, PayloadBytes(mon.vi, BlockEnd(mon.vi, mon.vl))),
                    mon.vi, BlockEnd(mon.vi, mon.vl))))

\* the rest of readEvent and of smfparse_read
BufEventTailReturn(r) ==
  /\ ~r.s.starved
  /\ ps' = r.ps
  /\ src' = r.s
  /\ ent' = r.ent
  /\ mon' = [mon EXCEPT !.pc = "done"]
  /\ last' = [last EXCEPT !.op = "parse"]

BufEventTail ==
  /\ mon.pc = "tail"
  /\ BufEventTailReturn(ReadInside(EvParse(EvSkipRest(EvUpdateRun(
        Locals(mon, ps, src))), ent)))

\* the next smfparse_read, when the event has left the parser inside the
\* track
BufAgainReturn(r) ==
  /\ ~r.s.starved
  /\ ps' = r.ps
  /\ src' = r.s
  /\ ent' = r.ent
  /\ mon' = [mon EXCEPT !.pc = "again"]
  /\ last' = [last EXCEPT !.op = "again"]

BufReadAgain ==
  /\ mon.pc = "done" /\ ps.fault = 0 /\ ps.status = 1 /\ ps.ckrem >= 0
  /\ BufAgainReturn(smfparse_read(ps, Enter(src)))

BufNext == BufReadOutside \/ BufEventHead \/ BufPayload \/ BufEventTail \/ BufReadAgain

BufSpec == BufInit /\ [][BufNext]_vars

(***************************************************************************)
(* A session over a file with one SMPTE Offset meta-event: the header      *)
(* declares the time system, the only track holds the event                *)
(***************************************************************************)

\* the division fields: pulses per quarter note, and 24, 25, 29 (drop-frame)
\* and 30 frames per second
SmpteDivisions == {<<0, 96>>, <<\HE8, 40>>, <<\HE7, 40>>, <<\HE3, 40>>, <<\HE2, 40>>}

\* the payloads of the event: hour, minute, second, frame, fractional frame
SmpteCodes ==
  {<<hr, mn, sc, fr, ff>> :
     hr \in {0, 23, 24}, mn \in {0, 1, 9, 10, 11, 30, 59, 60}, sc \in {0, 59, 60},
     fr \in {0, 1, 2, 23, 24, 25, 29, 30}, ff \in {0, 99, 100}}

SmpteCases == {[div |-> d, tc |-> c] : d \in SmpteDivisions, c \in SmpteCodes}

\* the frame rate a division field declares (0: not an SMPTE time system)
SmpteRate(d) == IF d[1] < 128 THEN 0 ELSE 256 - d[1]

SmpteInit ==
  /\ src = smfsource_new_handle(<<>>, "more", FALSE, FALSE)
  /\ ps = smfparse_alloc
  /\ ent = EntityReset
  /\ mon = NoLocals
  /\ \E k \in SmpteCases : last = [op |-> "none", case |-> k]

SmpteReturn(r, pc) ==
  /\ ps' = r.ps
  /\ src' = r.s
  /\ ent' = r.ent
  /\ mon' = [mon EXCEPT !.pc = pc]
  /\ last' = [last EXCEPT !.op = "parse"]

\* smfparse_read on the header, on the head of the track chunk and on the
\* event
SmpteRead ==
  /\ mon.pc = "idle" /\ ps.fault = 0
  /\ \/ /\ ps.status = 0
        /\ SmpteReturn(smfparse_read(ps, Enter(Fed(src,
               Hdr(6, 0, 1, last.case.div[1], last.case.div[2])))), "idle")
     \/ /\ ps.status = 1 /\ ps.ckrem < 0 /\ ps.trkcount = 0
        /\ SmpteReturn(smfparse_read(ps, Enter(Fed(src, MTrk \o Len4(13)))), "idle")
     \/ /\ ps.status = 1 /\ ps.ckrem >= 0
        /\ SmpteReturn(smfparse_read(ps, Enter(Fed(src,
               <<0, \HFF, \H54, 5>> \o last.case.tc))), "done")

SmpteNext == SmpteRead

SmpteSpec == SmpteInit /\ [][SmpteNext]_vars

(***************************************************************************)
(* The first read of a session, over files that begin with a chunk header  *)
(* and three 16-bit fields drawn independently of each other               *)
(***************************************************************************)

\* the chunk types, the length fields, and the format, track count and
\* division fields of the files
HdrTypes == {MThd, MTrk, XYZZ}

HdrLens == {<<0, 0, 0, 0>>, <<0, 0, 0, 5>>, <<0, 0, 0, 6>>, <<0, 0, 0, 7>>, <<0, 0, 0, 8>>,
            <<0, 1, 0, 0>>, <<\H80, 0, 0, 0>>}

HdrFmts == {<<0, 0>>, <<0, 1>>, <<0, 2>>, <<0, 3>>, <<1, 0>>}

HdrNtrks == {<<0, 0>>, <<0, 1>>, <<0, 2>>, <<1, 0>>}

HdrDivs == {<<0, 0>>, <<0, 96>>, <<\H7F, \HFF>>, <<\HE3, 40>>, <<\HE3, 0>>, <<\HE4, 40>>,
            <<\H80, 1>>, <<\HE8, 127>>, <<\HE7, 128>>, <<\HE2, \HFF>>}

\* the number of bytes the file holds, of the 16 of the longest chunk
HdrKeeps == {3, 7, 13, 14, 16}

HdrCases ==
  {[type |-> ty, len |-> l, fmt |-> f, ntrks |-> n, div |-> d, keep |-> k, tail |-> tl,
    can_seek |-> cs] :
     ty \in HdrTypes, l \in HdrLens, f \in HdrFmts, n \in HdrNtrks, d \in HdrDivs,
     k \in HdrKeeps, tl \in {"eof", "err"}, cs \in BOOLEAN}

\* the bytes of the file
HdrFile(k) ==
  SubSeq(k.type \o k.len \o k.fmt \o k.ntrks \o k.div \o <<\HAA, \HBB>>, 1, k.keep)

HdrInit ==
  /\ \E k \in HdrCases :
        /\ src = smfsource_new_handle(HdrFile(k), k.tail, FALSE, k.can_seek)
        /\ last = [op |-> "none", case |-> k]
  /\ ps = smfparse_alloc
  /\ ent = EntityReset
  /\ mon = NoLocals

HdrReturn(r) ==
  /\ ps' = r.ps
  /\ src' = r.s
  /\ ent' = r.ent
  /\ mon' = [mon EXCEPT !.pc = "done"]
  /\ last' = [last EXCEPT !.op = "parse"]

\* the first smfparse_read of the session
HdrRead ==
  /\ mon.pc = "idle" /\ ps.fault = 0 /\ ps.status = 0
  /\ HdrReturn(smfparse_read(ps, Enter(src)))

HdrNext == HdrRead

HdrSpec == HdrInit /\ [][HdrNext]_vars

(***************************************************************************)
(* A session over a header and one chunk: the type and the length of the   *)
(* chunk are drawn independently, and the file may end inside the chunk    *)
(***************************************************************************)

\* the chunk types: MThd, MTrk, and types the parser does not know
ChkTypes == {MThd, MTrk, XYZZ, <<\H4D, \H54, \H72, \H6A>>, <<0, 0, 0, 0>>,
             <<\HFF, \HFF, \HFF, \HFF>>}

ChkLens == {<<0, 0, 0, 0>>, <<0, 0, 0, 1>>, <<0, 0, 0, 2>>, <<0, 0, 0, 3>>, <<0, 1, 0, 0>>,
            <<\H7F, \HFF, \HFF, \HFF>>, <<\H80, 0, 0, 0>>}

\* the number of bytes the file holds after the header chunk: the 8 of the
\* chunk header and up to 3 of its payload
ChkKeeps == {4, 8, 9, 10, 11}

ChkCases ==
  {[ntrks |-> n, type |-> ty, len |-> l, keep |-> k, tail |-> tl, can_seek |-> cs] :
     n \in {1, 2}, ty \in ChkTypes, l \in ChkLens, k \in ChkKeeps, tl \in {"eof", "err"},
     cs \in BOOLEAN}

ChkFile(k) ==
  Hdr(6, 1, k.ntrks, 0, 96) \o SubSeq(k.type \o k.len \o <<\HDE, \HAD, \HBE>>, 1, k.keep)

ChkInit ==
  /\ \E k \in ChkCases :
        /\ src = smfsource_new_handle(ChkFile(k), k.tail, FALSE, k.can_seek)
        /\ last = [op |-> "none", case |-> k]
  /\ ps = smfparse_alloc
  /\ ent = EntityReset
  /\ mon = NoLocals

ChkReturn(r, pc) ==
  /\ ps' = r.ps
  /\ src' = r.s
  /\ ent' = r.ent
  /\ mon' = [mon EXCEPT !.pc = pc]
  /\ last' = [last EXCEPT !.op = "parse"]

\* smfparse_read on the header
ChkReadHeader ==
  /\ mon.pc = "idle" /\ ps.fault = 0 /\ ps.status = 0
  /\ ChkReturn(smfparse_read(ps, Enter(src)), "idle")

\* smfparse_read after the header, with no chunk open and a track to come
ChkReadChunk ==
  /\ mon.pc = "idle" /\ ps.fault = 0
  /\ ps.status = 1 /\ ps.ckrem < 0 /\ ps.trkcount < ps.head.nTracks
  /\ ChkReturn(smfparse_read(ps, Enter(src)), "done")

ChkNext == ChkReadHeader \/ ChkReadChunk

ChkSpec == ChkInit /\ [][ChkNext]_vars

(***************************************************************************)
(* The loop of midiwalk over a finite file: smfparse_read is called as     *)
(* long as the status it returns is above 0                                *)
(***************************************************************************)

\* the files: a header, the head of a chunk and two events, ending in an end
\* of file or in a read error
LoopFiles ==
  {h \o c \o e1 \o e2 : h \in CoreHeaders, c \in CoreChunks, e1 \in CoreEvents,
                        e2 \in EventPieces}

LoopInit ==
  /\ \E f \in LoopFiles, tl \in {"eof", "err"}, can_seek \in BOOLEAN :
        src = smfsource_new_handle(f, tl, FALSE, can_seek)
  /\ ps = smfparse_alloc
  /\ ent = EntityReset
  /\ mon = NoLocals
  /\ last = [op |-> "none", at |-> 0]

LoopReturn(r) ==
  /\ ps' = r.ps
  /\ src' = r.s
  /\ ent' = r.ent
  /\ last' = [op |-> "parse", at |-> src.fptr]
  /\ UNCHANGED mon

\* for(smfparse_read(...); ent.status > 0; smfparse_read(...))
LoopRead ==
  /\ ps.fault = 0
  /\ last.op = "none" \/ ent.status > 0
  /\ LoopReturn(smfparse_read(ps, Enter(src)))

LoopNext == LoopRead

\* the loop goes on: while its condition holds, the next call is made (the
\* call is recognised by the record of the call, which it renews)
LoopOn ==
  /\ ps.fault = 0
  /\ last.op = "none" \/ ent.status > 0
  /\ last' = [op |-> "parse", at |-> src.fptr]

LoopSpec == LoopInit /\ [][LoopNext]_vars /\ WF_last(LoopOn)

(***************************************************************************)
(* A session up to the head of a track, after which the bytes of the track *)
(* are taken either by smfparse_read or one at a time by readChunkByte     *)
(***************************************************************************)

\* the lengths the MTrk header declares, and the bytes the file holds after it
ByteLens == {0, 1, 2, 3}

ByteBodies ==
  {<<>>, <<0>>, <<\H80>>, <<\HFF>>, <<0, \H90>>, <<0, \HFF, \H2F, 0>>,
   <<0, \H90, \H3C, \H64>>, <<\H81, 0, \HC3, 5>>}

ByteInit ==
  /\ \E h \in CoreHeaders, n \in ByteLens, b \in ByteBodies, tl \in {"eof", "err"},
        can_seek \in BOOLEAN :
       src = smfsource_new_handle(h \o MTrk \o Len4(n) \o b, tl, FALSE, can_seek)
  /\ ps = smfparse_alloc
  /\ ent = EntityReset
  /\ mon = NoLocals
  /\ last = [op |-> "none", ret |-> 0, err |-> 0, rem |-> -1, at |-> 0, next |-> -1,
             before |-> 0]

\* what the step found: the remainder, the file position, the byte the file
\* holds next (-1: none) and the status of the entity returned before
ByteBefore(op, ret, err) ==
  [op |-> op, ret |-> ret, err |-> err, rem |-> ps.ckrem, at |-> src.fptr,
   next |-> IF src.ahead # <<>> THEN Head(src.ahead) ELSE -1, before |-> ent.status]

\* smfparse_read(ps, &ent, src) returns r
ByteParseReturn(r) ==
  /\ ps' = r.ps
  /\ src' = r.s
  /\ ent' = r.ent
  /\ last' = ByteBefore("parse", r.ent.status, 0)
  /\ UNCHANGED mon

ByteParse ==
  /\ ps.fault = 0 /\ last.op # "byte" /\ ent.status >= 0
  /\ (last.op = "none" \/ ent.status > 0)
  /\ ByteParseReturn(smfparse_read(ps, Enter(src)))

\* readChunkByte(pSrc, &(ps->ckrem), &err) returns r
ByteTakeReturn(r) ==
  /\ src' = r.s
  /\ ps' = [ps EXCEPT !.ckrem = r.rem]
  /\ last' = ByteBefore("byte", r.c, r.err)
  /\ UNCHANGED <<ent, mon>>

\* inside a track, while no byte has failed
ByteTake ==
  /\ ps.fault = 0 /\ ps.status = 1 /\ ps.ckrem >= 0 /\ ent.status > 0
  /\ (last.op = "parse" \/ (last.op = "byte" /\ last.ret >= 0))
  /\ ByteTakeReturn(readChunkByte(Enter(src), ps.ckrem))

ByteNext == ByteParse \/ ByteTake

ByteSpec == ByteInit /\ [][ByteNext]_vars

(***************************************************************************)
(* The loop of midiwalk over files of two tracks, the events of which are  *)
(* channel messages with and without their status byte, sysex and meta     *)
(* events                                                                  *)
(***************************************************************************)

StatEvents ==
  {<<0, \H90, \H3C, \H64>>, <<0, \H85, 1, 2>>, <<\H81, 0, \HC3, 5>>, <<0, \HEF, 0, \H40>>,
   <<0, \H3C, 0>>, <<0, 5>>, <<0, \HF0, 1, \HF7>>, <<0, \HF7, 0>>,
   <<0, \HFF, 1, 1, \H41>>, <<0, \HFF, \H51, 3, 7, \HA1, \H20>>, <<0, \H90, \H80, 0>>}

\* the events that end the second track
StatLast == {<<0, \H3C, 0>>, <<0, \HB2, 7, \H7F>>, <<0, \HFF, \H2F, 0>>}

\* two events and End Of Track in the first track, two events in the second
StatFile(a, b, c, d) ==
  Hdr(6, 1, 2, 0, 96) \o MTrk \o Len4(Len(a \o b) + 4) \o a \o b \o <<0, \HFF, \H2F, 0>>
    \o MTrk \o Len4(Len(c \o d)) \o c \o d

StatInit ==
  /\ \E a \in StatEvents, b \in StatEvents, c \in StatEvents, d \in StatLast,
        can_seek \in BOOLEAN :
       src = smfsource_new_handle(StatFile(a, b, c, d), "eof", FALSE, can_seek)
  /\ ps = smfparse_alloc
  /\ ent = EntityReset
  /\ mon = NoLocals
  /\ last = [op |-> "none", run |-> -1, lead |-> -1, pstatus |-> 0, pckrem |-> -1]

\* the byte that follows the variable-length quantity at the head of w
\* (-1: the quantity is not whole, or nothing follows it)
LeadByte(w) ==
  IF VarintLen(w) > 0 /\ Len(w) > VarintLen(w) THEN w[VarintLen(w) + 1] ELSE -1

\* smfparse_read(ps, &ent, src) returns r; `run` is the running status the
\* call found, `lead` the byte after the delta time of the event it read
StatReturn(r) ==
  /\ ps' = r.ps
  /\ src' = r.s
  /\ ent' = r.ent
  /\ last' = [op |-> "parse", run |-> ps.run,
              lead |-> IF ps.status = 1 /\ ps.ckrem >= 0 THEN LeadByte(src.ahead) ELSE -1,
              pstatus |-> ps.status, pckrem |-> ps.ckrem]
  /\ UNCHANGED mon

StatRead ==
  /\ ps.fault = 0 /\ (last.op = "none" \/ ent.status > 0)
  /\ StatReturn(smfparse_read(ps, Enter(src)))

StatNext == StatRead

StatSpec == StatInit /\ [][StatNext]_vars

(***************************************************************************)
(* The loop of midiwalk over files of one track that ends in one message:  *)
(* every status byte, with two bytes after it, with its status byte        *)
(* written or left to the running status, whole or cut short by the track  *)
(***************************************************************************)

MsgDataA == {0, \H2F, \H7F, \H80, \HFF}
MsgDataB == {0, \H40, \H7F, \H80, \HFF}

\* the message takes one parameter
MsgOneParam(s) == s >= \HC0 /\ s <= \HDF

\* s: the status byte; a, b: the two bytes after it; running: the message
\* follows a message of the same status and leaves its status byte out;
\* cut: the number of bytes of the message that the track does not hold
MsgCases ==
  {k \in [s : 128..255, a : MsgDataA, b : MsgDataB, running : BOOLEAN, cut : {0, 1}] :
     k.running => k.s <= \HEF}

\* the message that sets the running status
MsgPre(k) ==
  IF ~k.running THEN <<>>
  ELSE IF MsgOneParam(k.s) THEN <<0, k.s, 1>> ELSE <<0, k.s, 1, 2>>

\* the delta time and the message
MsgBytes(k) == IF k.running THEN <<0, k.a, k.b>> ELSE <<0, k.s, k.a, k.b>>

MsgFile(k) ==
  Hdr(6, 0, 1, 0, 96) \o MTrk \o Len4(Len(MsgPre(k) \o MsgBytes(k)) - k.cut)
    \o MsgPre(k) \o MsgBytes(k)

MsgInit ==
  /\ \E k \in MsgCases :
       /\ src = smfsource_new_handle(MsgFile(k), "eof", FALSE, FALSE)
       /\ last = [op |-> "none", case |-> k, n |-> 0, at |-> 0, pckrem |-> -1]
  /\ ps = smfparse_alloc
  /\ ent = EntityReset
  /\ mon = NoLocals

\* smfparse_read(ps, &ent, src) returns r: the n-th call, made at file
\* position `at` with the chunk remainder pckrem
MsgReturn(r) ==
  /\ ps' = r.ps
  /\ src' = r.s
  /\ ent' = r.ent
  /\ last' = [last EXCEPT !.op = "parse", !.n = @ + 1, !.at = src.fptr,
                          !.pckrem = ps.ckrem]
  /\ UNCHANGED mon

MsgRead ==
  /\ ps.fault = 0 /\ (last.op = "none" \/ ent.status > 0)
  /\ MsgReturn(smfparse_read(ps, Enter(src)))

MsgNext == MsgRead

MsgSpec == MsgInit /\ [][MsgNext]_vars

(***************************************************************************)
(* The loop of midiwalk over files of one track that holds one meta-event: *)
(* every type the parser tells apart, with payloads of every length around *)
(* the length the type requires and with the bytes at the edges of the     *)
(* ranges of the time signature and of the key signature                   *)
(***************************************************************************)

MetaTypes == {\H00, \H01, \H07, \H08, \H20, \H2F, \H51, \H54, \H58, \H59, \H7F}

\* a payload that is valid for every type of fixed length, cut to its length
MetaBase == <<1, 1, 2, 3, 8, 8>>

MetaSigNum == {0, 1, \HFF}
MetaSigDenom == {0, 1, 10, 11, 15, 16, 31, 32, \HFF}
MetaKeys == {0, 1, 7, 8, \H7F, \H80, \HF8, \HF9, \HFF}
MetaModes == {0, 1, 2, \HFF}

\* type, data: the type and the payload of the meta-event; pre: a text event
\* of two bytes comes before it in the track
MetaCases ==
  [type : MetaTypes, data : {SubSeq(MetaBase, 1, n) : n \in 0..Len(MetaBase)}, pre : BOOLEAN]
    \cup [type : {\H58}, data : MetaSigNum \X MetaSigDenom \X MetaSigNum \X MetaSigNum,
          pre : {FALSE}]
    \cup [type : {\H59}, data : MetaKeys \X MetaModes, pre : {FALSE}]
    \cup [type : {\H20}, data : {<<0>>, <<15>>, <<16>>, <<\HFF>>}, pre : BOOLEAN]
    \cup [type : {\H51}, data : {<<0, 0, 0>>, <<0, 0, 1>>, <<\HFF, \HFF, \HFF>>},
          pre : BOOLEAN]
    \cup [type : {\H00}, data : {<<0, 0>>, <<\HFF, \HFF>>}, pre : BOOLEAN]

\* the text event before the meta-event
MetaPre(k) == IF k.pre THEN <<0, \HFF, 1, 2, \H61, \H62>> ELSE <<>>

\* the delta time and the meta-event
MetaBytes(k) == <<0, \HFF, k.type>> \o VarintEncode(Len(k.data)) \o k.data

MetaFile(k) ==
  Hdr(6, 0, 1, 0, 96) \o MTrk \o Len4(Len(MetaPre(k) \o MetaBytes(k)))
    \o MetaPre(k) \o MetaBytes(k)

MetaInit ==
  /\ \E k \in MetaCases :
       /\ src = smfsource_new_handle(MetaFile(k), "eof", FALSE, FALSE)
       /\ last = [op |-> "none", case |-> k, n |-> 0]
  /\ ps = smfparse_alloc
  /\ ent = EntityReset
  /\ mon = NoLocals

\* smfparse_read(ps, &ent, src) returns r: the n-th call
MetaReturn(r) ==
  /\ ps' = r.ps
  /\ src' = r.s
  /\ ent' = r.ent
  /\ last' = [last EXCEPT !.op = "parse", !.n = @ + 1]
  /\ UNCHANGED mon

MetaRead ==
  /\ ps.fault = 0 /\ (last.op = "none" \/ ent.status > 0)
  /\ MetaReturn(smfparse_read(ps, Enter(src)))

MetaNext == MetaRead

MetaSpec == MetaInit /\ [][MetaNext]_vars

(***************************************************************************)
(* Two sessions side by side over the same bytes: one through a handle     *)
(* source that can seek, and skips by its callback, and one through a      *)
(* handle source that cannot, and skips by reading; the files are cut      *)
(* short at every position, and no read fails                              *)
(***************************************************************************)

TwinHeads ==
  {Hdr(6, 1, 2, 0, 96), Hdr(6, 0, 1, 0, 96), Hdr(8, 1, 2, 0, 96) \o <<\HAA, \HBB>>}

TwinChunks ==
  {XYZZ \o Len4(0), XYZZ \o Len4(3) \o <<1, 2, 3>>,
   XYZZ \o <<\H7F, \HFF, \HFF, \HFF>> \o <<1, 2>>,
   MTrk \o Len4(4) \o <<0, \HFF, \H2F, 0>>,
   MTrk \o Len4(7) \o <<0, \HFF, \H2F, 0, \HAA, \HBB, \HCC>>,
   MTrk \o Len4(8) \o <<0, \H90, \H2F, \H40, 0, \HFF, \H2F, 0>>,
   MTrk \o Len4(10) \o <<0, \HFF, 1, 1, \H61, 0, \HFF, \H2F, 0, \HAA>>}

\* the whole files, and every file that ends early
TwinFiles ==
  UNION {Prefixes(h \o c1 \o c2) : <<h, c1, c2>> \in TwinHeads \X TwinChunks \X TwinChunks}

\* the parser and the seekable source are ps and src; mon holds the parser,
\* the source and the entity of the session that cannot seek
TwinInit ==
  /\ ps = smfparse_alloc
  /\ ent = EntityReset
  /\ \E f \in TwinFiles :
       /\ src = smfsource_new_handle(f, "eof", TRUE, TRUE)
       /\ mon = [s |-> smfsource_new_handle(f, "eof", TRUE, FALSE),
                 ps |-> smfparse_alloc, ent |-> EntityReset]
  /\ last = [op |-> "none", from |-> 0]

\* smfparse_read is called once in each of the two sessions
TwinReturn(r, q) ==
  /\ ps' = r.ps
  /\ src' = r.s
  /\ ent' = r.ent
  /\ mon' = [s |-> q.s, ps |-> q.ps, ent |-> q.ent]
  /\ last' = [op |-> "pair", from |-> src.fptr]

TwinRead ==
  /\ ps.fault = 0 /\ mon.ps.fault = 0
  /\ TwinReturn(smfparse_read(ps, Enter(src)), smfparse_read(mon.ps, Enter(mon.s)))

TwinNext == TwinRead

TwinSpec == TwinInit /\ [][TwinNext]_vars

(***************************************************************************)
(* Properties                                                              *)
(***************************************************************************)

\* the call that led to the current state made no call on the source at all
NoSourceCall(s) ==
  s.nApi = 0 /\ s.cbRead = 0 /\ s.cbSkip = 0 /\ s.cbRewind = 0 /\ s.cbClose = 0

\* C1: once smfparse_read has returned a negative error code, the next
\* smfparse_read (and so every later one) returns the same code, makes no
\* read, skip or rewind call on the source and consumes no input.
C1_ErrorAbsorbing ==
  [][(last.op = "parse" /\ ent.status < 0)
       => /\ ent'.status = ent.status
          /\ ps'.status = ent.status
          /\ NoSourceCall(src')
          /\ src'.fptr = src.fptr /\ src'.ahead = src.ahead /\ src'.state = src.state]_vars

\* a read was made by a parser already in an error state, with input left
C1_Witness ==
  last.op = "parse" /\ last.pstatus < 0 /\ ent.status = last.pstatus /\ src.ahead # <<>>

\* C2: once smfparse_read has returned the EOF entity, the next read (and
\* so every later one) returns EOF again and does nothing on the source,
\* whatever bytes remain; and a first EOF is returned only by the read that
\* follows the END_TRACK of the last declared track.
C2_EofAbsorbing ==
  [][/\ (last.op = "parse" /\ ent.status = SMF_TYPE_EOF)
          => /\ ent'.status = SMF_TYPE_EOF
             /\ NoSourceCall(src')
             /\ src'.fptr = src.fptr /\ src'.ahead = src.ahead /\ src'.state = src.state
     /\ (ent'.status = SMF_TYPE_EOF /\ ~(last.op = "parse" /\ ent.status = SMF_TYPE_EOF))
          => /\ last.op = "parse" /\ ent.status = SMF_TYPE_END_TRACK
             /\ mon.begun = ps.head.nTracks
             /\ NoSourceCall(src')]_vars

\* EOF was returned again by a parser that had already returned it, while
\* bytes remain in the source
C2_Witness ==
  last.op = "parse" /\ last.pstatus = 2 /\ ent.status = SMF_TYPE_EOF /\ src.ahead # <<>>

\* C3: the non-error entities returned by successive reads follow the
\* grammar HEADER (CHUNK | BEGIN_TRACK event* END_TRACK)* EOF+: HEADER is the
\* first entity and occurs only then; CHUNK, BEGIN_TRACK and EOF occur only
\* while no track is open; every other entity only while a track is open
\* (BEGIN_TRACK opens it, END_TRACK closes it); after EOF only EOF.
C3_Grammar ==
  [][ent'.status >= 0
       => /\ (ent'.status = SMF_TYPE_HEADER) <=> (mon.n = 0)
          /\ ent'.status \in {SMF_TYPE_CHUNK, SMF_TYPE_BEGIN_TRACK, SMF_TYPE_EOF} => ~mon.open
          /\ ent'.status \notin {SMF_TYPE_HEADER, SMF_TYPE_CHUNK, SMF_TYPE_BEGIN_TRACK,
                                 SMF_TYPE_EOF} => mon.open
          /\ mon.eof => ent'.status = SMF_TYPE_EOF]_vars

\* a file of two tracks, the second longer than its End Of Track event, has
\* been read to EOF
C3_Witness ==
  last.op = "parse" /\ ent.status = SMF_TYPE_EOF /\ mon.begun = 2 /\ mon.trkDecl > 4
  /\ ~mon.open

\* C4: after the header 0 <= trkcount <= nTracks; trkcount is incremented
\* exactly by each BEGIN_TRACK (not by a foreign chunk); once trkcount =
\* nTracks and no chunk is open nothing more is read from the source; and
\* EOF is returned only when trkcount = nTracks and no chunk is open.
C4_TrackCount ==
  [][/\ mon'.n >= 1 => (0 <= ps'.trkcount /\ ps'.trkcount <= ps'.head.nTracks)
     /\ ps'.trkcount = ps.trkcount + (IF ent'.status = SMF_TYPE_BEGIN_TRACK THEN 1 ELSE 0)
     /\ ps'.trkcount = mon'.begun
     /\ (mon.n >= 1 /\ ps.ckrem < 0 /\ ps.trkcount = ps.head.nTracks) => NoSourceCall(src')
     /\ ent'.status = SMF_TYPE_EOF
          => (ps.trkcount = ps.head.nTracks /\ ps.ckrem < 0 /\ ~mon.open)]_vars

\* a foreign chunk was returned after the first of two tracks had begun
C4_Witness ==
  last.op = "parse" /\ ent.status = SMF_TYPE_CHUNK /\ ps.trkcount = 1 /\ ps.head.nTracks = 2

\* the bytes consumed from the source since the last BEGIN_TRACK was returned
TrackConsumed == src.fptr - mon.trkStart

\* C5 as stated: when END_TRACK is returned, the bytes consumed since the
\* matching BEGIN_TRACK equal the length declared in the MTrk chunk header,
\* also when the input ends before the declared length is reached.
C5_TrackLengthAlways ==
  (last.op = "parse" /\ ent.status = SMF_TYPE_END_TRACK) => TrackConsumed = mon.trkDecl

\* C5: when END_TRACK is returned, the bytes consumed since the matching
\* BEGIN_TRACK equal the declared length, unless the input ended before the
\* declared length was reached: then they are fewer, and the source is at
\* the end of its input.
C5_TrackLength ==
  (last.op = "parse" /\ ent.status = SMF_TYPE_END_TRACK)
    => \/ TrackConsumed = mon.trkDecl
       \/ TrackConsumed < mon.trkDecl /\ src.ahead = <<>> /\ src.tail = "eof"

\* END_TRACK was returned after a skip over bytes that follow End Of Track
C5_Witness ==
  last.op = "parse" /\ ent.status = SMF_TYPE_END_TRACK /\ last.pckrem > 4
  /\ TrackConsumed = mon.trkDecl

\* C6 as stated: after smfsource_rewind on a source in the ERROR or EOF
\* state whose rewind callback succeeds, the source is in the NORMAL state.
C6_RewindRestoresNormal ==
  (last.op = "rewind" /\ last.pre \in {SOURCE_STATE_ERROR, SOURCE_STATE_EOF}
     /\ src.cbRewind = 1 /\ last.arg = 1)
    => src.state = SOURCE_STATE_NORMAL

\* C7: a rewind callback that reports failure puts the source in
\* DOUBLE_ERROR, and from DOUBLE_ERROR the state never changes, reads
\* return IO-ERROR, skips and rewinds fail, no read, skip or rewind callback
\* is invoked, and close still releases the source through its callback.
C7_DoubleErrorTerminal ==
  [][/\ (last'.op = "rewind" /\ src'.cbRewind = 1 /\ last'.arg = 0)
          => src'.state = SOURCE_STATE_DOUBLE /\ last'.ret = 0
     /\ src.state = SOURCE_STATE_DOUBLE
          => /\ src'.state = SOURCE_STATE_DOUBLE
             /\ last'.op = "read" => last'.ret = SMFSOURCE_IOERR
             /\ last'.op \in {"skip", "rewind"} => last'.ret = 0
             /\ src'.cbRead = 0 /\ src'.cbSkip = 0 /\ src'.cbRewind = 0
             /\ last'.op = "close"
                  => src'.released /\ src'.cbClose = (IF src.fClose THEN 1 ELSE 0)]_vars

\* a rewind was attempted on a source in DOUBLE_ERROR
C7_Witness ==
  last.op = "rewind" /\ last.pre = SOURCE_STATE_DOUBLE /\ last.arg = 1 /\ src.fRewind

\* C8: a read callback returning IO-ERROR or a skip callback reporting
\* failure leaves the source in ERROR, and in ERROR or DOUBLE_ERROR every
\* read returns IO-ERROR and every skip fails (a skip of 0 too) without the
\* read or skip callback being invoked.
C8_ErrorState ==
  [][/\ src'.cbErr => src'.state = SOURCE_STATE_ERROR
     /\ src.state \in {SOURCE_STATE_ERROR, SOURCE_STATE_DOUBLE}
          => /\ last'.op = "read" => last'.ret = SMFSOURCE_IOERR
             /\ last'.op = "skip" => last'.ret = 0
             /\ src'.cbRead = 0 /\ src'.cbSkip = 0]_vars

\* a skip of 0 was made on a source in ERROR
C8_Witness ==
  last.op = "skip" /\ last.pre = SOURCE_STATE_ERROR /\ last.arg = 0 /\ last.ret = 0

\* what C9 says of a call made after the read callback has returned EOF
EofHolds ==
  /\ last'.op = "read" => last'.ret = SMFSOURCE_EOF
  /\ last'.op = "skip" => last'.ret = 1
  /\ src'.cbRead = 0 /\ src'.cbSkip = 0

\* C9 as stated: after the read callback has returned EOF the source is in
\* EOF and, until a rewind succeeds, reads return EOF, skips succeed and the
\* read and skip callbacks are not invoked.
C9_EofUntilRewindSucceeds ==
  [][/\ src'.cbEof => src'.state = SOURCE_STATE_EOF
     /\ mon.afterEof # 0 => EofHolds]_vars

\* C9: after the read callback has returned EOF the source is in EOF and,
\* until smfsource_rewind invokes the rewind callback (whether or not it
\* succeeds), reads return EOF, skips succeed and the read and skip
\* callbacks are not invoked.
C9_EofUntilRewindCallback ==
  [][/\ src'.cbEof => src'.state = SOURCE_STATE_EOF
     /\ mon.afterEof = 1 => (src.state = SOURCE_STATE_EOF /\ EofHolds)]_vars

\* a positive skip succeeded on a source whose read callback had returned EOF
C9_Witness ==
  mon.afterEof = 1 /\ last.op = "skip" /\ last.pre = SOURCE_STATE_EOF
  /\ last.arg > 0 /\ last.ret = 1

\* C10: smfsource_rewind on a source without a rewind callback fails and
\* leaves the state as it was, and smfsource_canRewind returns non-zero
\* exactly for a source with a rewind callback, in every state.
C10_NoRewindCallback ==
  [][/\ (last'.op = "rewind" /\ ~src.fRewind)
          => last'.ret = 0 /\ src'.state = src.state /\ src'.cbRewind = 0
     /\ last'.op = "canRewind" => ((last'.ret # 0) <=> src.fRewind)]_vars

\* a rewind was attempted in the EOF state on a source without the callback
C10_Witness ==
  last.op = "rewind" /\ ~src.fRewind /\ last.pre = SOURCE_STATE_EOF /\ last.ret = 0

\* what smfsource_skip(n) promises when called in the NORMAL state: the
\* simulated skip makes at most n calls of the read callback, the seek
\* none, and a skip of distance zero makes no callback at all
SkipCallbacks(s, n) ==
  /\ s.cbRead <= n
  /\ s.fSkip => (s.cbRead = 0 /\ s.cbSkip <= 1)
  /\ ~s.fSkip => s.cbSkip = 0
  /\ n = 0 => (s.cbRead = 0 /\ s.cbSkip = 0)

\* C11 as stated: a skip of n bytes in the NORMAL state over an input that
\* ends after fewer than n more bytes succeeds and the next read returns
\* EOF; over an input of at least n more bytes it succeeds and the next read
\* returns the byte n positions further on; with a skip callback or by at
\* most n reads.
C11_SkipThenRead ==
  /\ (last.op = "skip" /\ last.pre = SOURCE_STATE_NORMAL /\ src.tail = "eof")
       => (last.ret = 1 /\ SkipCallbacks(src, last.arg))
  /\ (/\ last.op = "read" /\ last.prev.op = "skip"
      /\ last.prev.pre = SOURCE_STATE_NORMAL /\ src.tail = "eof")
       => IF Len(last.prev.pahead) < last.prev.arg
            THEN last.ret = SMFSOURCE_EOF
            ELSE /\ last.prev.arg < Len(last.prev.pahead)
                 /\ last.ret = last.prev.pahead[last.prev.arg + 1]

\* C11, corrected: a skip of n bytes in the NORMAL state succeeds when the
\* input holds more than n further bytes, and then the next read returns the
\* byte n positions further on; it succeeds as well when the input ends (end
\* of file) after at most n further bytes, and then the next read returns
\* EOF.  With a skip callback the read callback is not called; without one
\* it is called at most n times; a skip of zero calls nothing.
C11_SkipClamped ==
  /\ (/\ last.op = "skip" /\ last.pre = SOURCE_STATE_NORMAL
      /\ (src.tail = "eof" \/ last.arg < Len(last.pahead)))
       => (last.ret = 1 /\ SkipCallbacks(src, last.arg))
  /\ (/\ last.op = "read" /\ last.prev.op = "skip"
      /\ last.prev.pre = SOURCE_STATE_NORMAL)
       => /\ last.prev.arg < Len(last.prev.pahead)
              => last.ret = last.prev.pahead[last.prev.arg + 1]
          /\ (last.prev.arg >= Len(last.prev.pahead) /\ src.tail = "eof")
              => last.ret = SMFSOURCE_EOF

\* a read has followed a skip in the NORMAL state that ended inside the
\* input, and one that was clamped at its end, with and without the skip
\* callback
C11_Witness ==
  /\ last.op = "read" /\ last.prev.op = "skip"
  /\ last.prev.pre = SOURCE_STATE_NORMAL /\ last.prev.arg = 1
  /\ Len(last.prev.pahead) = 2 /\ last.ret = last.prev.pahead[2]
  /\ ~src.fSkip

\* C12: smfsource_close(NULL) returns success and invokes no callback;
\* smfsource_close on a source in any state invokes the close callback
\* exactly once when one is registered (and no other callback), releases the
\* source, and returns failure only if that callback reported failure.
C12_Close ==
  /\ last.op = "closeNull"
       => (last.ret = 1 /\ NoSourceCall(src) /\ ~src.released)
  /\ last.op = "close"
       => /\ src.released
          /\ src.cbClose = (IF src.fClose THEN 1 ELSE 0)
          /\ src.cbRead = 0 /\ src.cbSkip = 0 /\ src.cbRewind = 0
          /\ last.ret \in {0, 1}
          /\ last.ret = 0 => (src.cbClose = 1 /\ src.cbFail)

\* a source in the DOUBLE_ERROR state has been closed and its close callback
\* has reported failure
C12_Witness ==
  /\ last.op = "close" /\ last.pre = SOURCE_STATE_DOUBLE
  /\ src.cbClose = 1 /\ src.cbFail /\ last.ret = 0 /\ src.released

\* the kinds of entity returned inside a track
InTrack(e) == e.status >= SMF_TYPE_END_TRACK /\ e.status <= SMF_TYPE_META

\* C13: every in-track entity (every kind except HEADER, CHUNK, BEGIN_TRACK
\* and EOF) carries a delta with 0 <= delta <= 2^28 - 1 that is the value of
\* the variable-length integer in front of the event, which was decoded from
\* at most 4 bytes.
C13_Delta ==
  (last.op = "parse" /\ InTrack(ent))
    => /\ 0 <= ent.delta /\ ent.delta <= SMF_MAX_VARINT
       /\ last.var.n >= 1 /\ last.var.n <= 4
       /\ ent.delta = last.var.v

\* an event has been returned whose delta, the largest one, was written in
\* four bytes
C13_Witness ==
  /\ last.op = "parse" /\ InTrack(ent)
  /\ last.var.n = 4 /\ ent.delta = SMF_MAX_VARINT

\* C14: for every n in [0, 2^28 - 1], readChunkVar applied to the standard
\* base-128 big-endian encoding of n (at most 4 bytes), in a chunk whose
\* remainder covers the encoding, returns n and decrements the remainder by
\* exactly the number of encoded bytes (and reads exactly those bytes).
C14_VarintRoundTrip ==
  /\ last.op \in {"number", "written", "readChunkVar"}
       => /\ 0 <= last.arg /\ last.arg <= SMF_MAX_VARINT
          /\ Len(VarintEncode(last.arg)) <= 4
  /\ last.op = "readChunkVar"
       => /\ last.ret = last.arg
          /\ ps.ckrem = last.pckrem - Len(VarintEncode(last.arg))
          /\ src.fptr = Len(VarintEncode(last.arg))
          /\ src.cbRead = Len(VarintEncode(last.arg))

\* the largest number, 2^28 - 1, has come back from its four bytes
\* FF FF FF 7F, with a byte left in the chunk
C14_Witness ==
  /\ last.op = "readChunkVar" /\ last.arg = SMF_MAX_VARINT
  /\ last.ret = SMF_MAX_VARINT /\ last.pckrem = 5 /\ ps.ckrem = 1
  /\ src.orig = <<\HFF, \HFF, \HFF, \H7F, \HFF>>

\* the last call was a smfparse_read made inside a track
InTrackCall == last.op = "parse" /\ last.pstatus = 1 /\ last.pckrem >= 0

\* C15: inside a track, a delta whose first four bytes all have the top bit
\* set is rejected with LONG_VARINT when the chunk holds those four bytes,
\* and so is such a payload length of a sysex or meta event; LONG_VARINT is
\* returned for no other input, in particular not for a delta or length of
\* 1 to 4 bytes whose last byte has the top bit clear; once returned,
\* LONG_VARINT is returned by every later call.
C15_LongVarint ==
  [][/\ (InTrackCall' /\ last'.var.long /\ last'.pckrem >= 4)
          => ent'.status = SMF_ERR_LONG_VARINT
     /\ (/\ InTrackCall' /\ last'.var.n >= 1 /\ last'.lvar.var.long
         /\ last'.pckrem >= last'.lvar.upto)
          => ent'.status = SMF_ERR_LONG_VARINT
     /\ (InTrackCall' /\ ent'.status = SMF_ERR_LONG_VARINT)
          => \/ last'.var.long /\ last'.pckrem >= 4
             \/ /\ last'.var.n >= 1 /\ last'.lvar.var.long
                /\ last'.pckrem >= last'.lvar.upto
     /\ ent.status = SMF_ERR_LONG_VARINT => ent'.status = SMF_ERR_LONG_VARINT]_vars

\* LONG_VARINT has been returned for a meta event whose delta is one byte
\* and whose payload length begins FF FF FF FF, in a chunk that holds them
C15_Witness ==
  /\ InTrackCall /\ ent.status = SMF_ERR_LONG_VARINT
  /\ last.var.n = 1 /\ ~last.var.long
  /\ last.lvar.var.long /\ last.lvar.upto = 7 /\ last.pckrem >= 7

\* C16: of two files that differ only in that a channel message leaves out
\* its status byte under a cached running status in the first and writes it
\* in the second (whose track is declared one byte longer), smfparse_read
\* returns the same entities call by call, and the parser states are the
\* same from the call that reads that message on; up to that call they
\* differ at most in the chunk remainder, by that one byte.
C16_RunningStatus ==
  last.op = "pair"
    => /\ ent = mon.ent
       /\ IF last.seen THEN ps = mon.ps
          ELSE \/ mon.ps = ps
               \/ mon.ps = [ps EXCEPT !.ckrem = @ + 1]

\* a NOTE_ON has been returned for the message read under the running
\* status 0x90, and for its written-out twin
C16_Witness ==
  /\ last.op = "pair" /\ last.seen /\ last.from = last.at /\ last.run = \H90
  /\ ent.status = SMF_TYPE_NOTE_ON /\ ent.key = \H3C /\ ent.val = 0
  /\ mon.ent = ent /\ mon.s.fptr = src.fptr + 1 /\ ps.run = \H90

\* C17: in every channel entity (NOTE_OFF, NOTE_ON, KEY_AFTERTOUCH, CONTROL,
\* PROGRAM, CH_AFTERTOUCH, PITCH_BEND) ch is in [0, 15]; each of key, ctl
\* and val that the kind defines is in [0, 127]; the bend of a PITCH_BEND is
\* in [-8192, 8191].
C17_ChannelRanges ==
  (last.op = "parse" /\ ent.status >= SMF_TYPE_NOTE_OFF /\ ent.status <= SMF_TYPE_PITCH_BEND)
    => /\ ent.ch \in 0..15
       /\ ent.status \in {SMF_TYPE_NOTE_OFF, SMF_TYPE_NOTE_ON, SMF_TYPE_KEY_AFTERTOUCH}
            => (ent.key \in 0..127 /\ ent.val \in 0..127)
       /\ ent.status = SMF_TYPE_CONTROL => (ent.ctl \in 0..127 /\ ent.val \in 0..127)
       /\ ent.status \in {SMF_TYPE_PROGRAM, SMF_TYPE_CH_AFTERTOUCH} => ent.val \in 0..127
       /\ ent.status = SMF_TYPE_PITCH_BEND => (ent.bend >= -8192 /\ ent.bend <= 8191)

\* the largest pitch bend, on the highest channel, has been returned
C17_Witness ==
  /\ last.op = "parse" /\ ent.status = SMF_TYPE_PITCH_BEND
  /\ ent.ch = 15 /\ ent.bend = 8191

\* the event has been read, from a track that was declared long enough
BufDone == mon.pc = "done" /\ last.case.cut = 0

\* the data buffer of the entity holds the payload of the event, in order
BufHoldsPayload(e, n) ==
  /\ e.buf_len = n
  /\ IF n = 0 THEN e.buf_ptr = NULL ELSE e.buf_ptr = PayloadBytes(0, n)

\* C18 as stated: a sysex (F0/F7) or meta (FF) event with a declared payload
\* length L <= 32768 whose payload fits in the chunk is accepted with
\* buf_len = L and the payload bytes in order; with L > 32768 it is rejected
\* with BIG_PAYLOAD and with no other error code.
C18_BufferCapAnyEvent ==
  BufDone
    => IF last.case.len <= BCAP_MAX
         THEN ent.status > 0 /\ BufHoldsPayload(ent, last.case.len)
         ELSE ent.status = SMF_ERR_BIG_PAYLOAD

\* C18, corrected: the payload of a sysex or meta event with declared length
\* L <= 32768 that fits in the chunk is taken into the data buffer whole and
\* in order, and the event is never rejected with BIG_PAYLOAD; it is
\* returned with buf_len = L and those bytes when it is a SYSEX, SYSESC,
\* TEXT or META entity; a meta event of a type with a fixed payload length
\* is returned without data buffer (buf_len = 0) or rejected with the error
\* code of its type.  Every such event with L > 32768 is rejected with
\* BIG_PAYLOAD, whatever its type.
C18_BufferCap ==
  /\ ps.blen <= BCAP_MAX /\ ps.blen <= ps.bcap /\ ps.bcap <= BCAP_MAX
  /\ BufDone
       => IF last.case.len <= BCAP_MAX
            THEN /\ ps.blen = last.case.len
                 /\ ps.bptr = PayloadBytes(0, last.case.len)
                 /\ ent.status # SMF_ERR_BIG_PAYLOAD
                 /\ ent.status \in {SMF_TYPE_SYSEX, SMF_TYPE_SYSESC, SMF_TYPE_TEXT,
                                    SMF_TYPE_META}
                      => BufHoldsPayload(ent, last.case.len)
                 /\ last.case.head[2] \in {\HF0, \HF7}
                      => ent.status \in {SMF_TYPE_SYSEX, SMF_TYPE_SYSESC}
                 /\ (last.case.head[2] = \HFF /\ last.case.head[3] \in {1, \H7F})
                      => ent.status \in {SMF_TYPE_TEXT, SMF_TYPE_META}
                 /\ ent.status \in {SMF_TYPE_TEMPO, SMF_TYPE_END_TRACK}
                      => ent.buf_len = 0
                 /\ ent.status < 0 => ent.status \in {SMF_ERR_SET_TEMPO, SMF_ERR_BAD_EOT}
            ELSE ent.status = SMF_ERR_BIG_PAYLOAD

\* a SYSEX entity has been returned with a payload of 32768 bytes
C18_Witness ==
  /\ BufDone /\ last.case.len = BCAP_MAX /\ ent.status = SMF_TYPE_SYSEX
  /\ ent.buf_len = BCAP_MAX /\ ps.bcap = BCAP_MAX

\* the SMPTE Offset event of the file has been read
SmpteDone == mon.pc = "done" /\ ps.head.frame_rate = SmpteRate(last.case.div)

\* the timecode is one that drop-frame counting leaves out: minute not a
\* multiple of 10, frame 0 or 1
SmpteDropped(tc) == tc[2] % 10 # 0 /\ tc[4] \in {0, 1}

\* the fields of the timecode are in their ranges
SmpteInRange(tc) == tc[1] <= 23 /\ tc[2] <= 59 /\ tc[3] <= 59 /\ tc[4] <= 29 /\ tc[5] <= 99

\* C19: when the header declared frame_rate = 29, every SMPTE Offset
\* meta-event (FF 54) whose minute byte is not a multiple of 10 and whose
\* frame byte is 0 or 1 is rejected with SMPTE_OFF; when the header declared
\* any other time system, such a timecode is not rejected for that reason:
\* it is returned as an SMPTE entity when its fields are in range.
C19_DropFrame ==
  /\ mon.pc = "done" => ps.head.frame_rate = SmpteRate(last.case.div)
  /\ (SmpteDone /\ SmpteDropped(last.case.tc))
       => IF SmpteRate(last.case.div) = 29
            THEN ent.status = SMF_ERR_SMPTE_OFF
            ELSE SmpteInRange(last.case.tc)
                   => /\ ent.status = SMF_TYPE_SMPTE
                      /\ ent.tcode = <<[hour |-> last.case.tc[1], minute |-> last.case.tc[2],
                                        second |-> last.case.tc[3], frame |-> last.case.tc[4],
                                        ff |-> last.case.tc[5]]>>

\* under 29 frames per second a timecode in range with minute 11 and frame 1
\* has been rejected
C19_Witness ==
  /\ SmpteDone /\ SmpteRate(last.case.div) = 29
  /\ last.case.tc = <<23, 11, 59, 1, 99>>
  /\ ent.status = SMF_ERR_SMPTE_OFF

\* the value of a big-endian 16-bit field, and of a length field below 2^31
U16(b) == (b[1] * 256) + b[2]

U31(b) == (((((b[1] * 256) + b[2]) * 256) + b[3]) * 256) + b[4]

\* the division field is one the header admits
HdrDivValid(d) ==
  IF d[1] < 128 THEN U16(d) > 0 ELSE (256 - d[1]) \in {24, 25, 29, 30} /\ d[2] >= 1

\* the result the precedence of C20 prescribes for the file k
HdrVerdict(k) ==
  IF k.type # MThd THEN SMF_ERR_SIGNATURE
  ELSE IF U31(k.len) < 6 THEN SMF_ERR_HEADER
  ELSE IF U16(k.fmt) > 2 THEN SMF_ERR_MIDI_FMT
  ELSE IF U16(k.ntrks) = 0 THEN SMF_ERR_NO_TRACKS
  ELSE IF U16(k.fmt) = 0 /\ U16(k.ntrks) > 1 THEN SMF_ERR_MULTI_TRACK
  ELSE IF ~HdrDivValid(k.div) THEN SMF_ERR_HEADER
  ELSE SMF_TYPE_HEADER

\* the first read has returned, and the file holds the 8 bytes of the chunk
\* header
HdrDone == mon.pc = "done" /\ last.case.keep >= 8

\* the length field is at most 2^31 - 1
HdrLenFits(k) == k.len[1] < 128

\* the file holds what the verdict depends on: the chunk header; and the
\* whole chunk when the type is MThd and the length at least 6
HdrJudged(k) ==
  \/ k.type # MThd
  \/ (HdrLenFits(k) /\ (U31(k.len) < 6 \/ k.keep >= 8 + U31(k.len)))

\* the HEADER entity e is valid
HdrValid(e) ==
  /\ e.pHead # NULL
  /\ e.pHead[1].fmt \in {0, 1, 2}
  /\ e.pHead[1].nTracks >= 1
  /\ e.pHead[1].fmt = 0 => e.pHead[1].nTracks = 1

TimeSysOf(ts, d) ==
  \/ /\ ts.frame_rate = 0
     /\ ts.subdiv \in 1..32767 /\ ts.subdiv = U16(d)
  \/ /\ ts.frame_rate \in {24, 25, 29, 30} /\ d[1] >= 128 /\ ts.frame_rate = 256 - d[1]
     /\ ts.subdiv \in 1..127 /\ ts.subdiv = d[2]

\* the division field d has a time system in the documented ranges
DivDocumented(d) ==
  IF d[1] < 128 THEN U16(d) >= 1
  ELSE (256 - d[1]) \in {24, 25, 29, 30} /\ d[2] \in 1..127

\* C21: every HEADER entity carries a time system in the documented ranges:
\* frame_rate = 0 and subdiv in [1, 32767] equal to the division field, or
\* frame_rate in {24, 25, 29, 30} (the negated high byte) and subdiv in
\* [1, 127] equal to the low byte; any other division field is rejected
\* with HEADER.
C21_TimeSystem ==
  /\ ent.status = SMF_TYPE_HEADER
       => TimeSysOf([subdiv |-> ent.pHead[1].subdiv, frame_rate |-> ent.pHead[1].frame_rate],
                    last.case.div)
  /\ (HdrDone /\ HdrLenFits(last.case) /\ HdrJudged(last.case)
        /\ ~DivDocumented(last.case.div))
       => ent.status < 0

\* the 32-bit code of the four bytes of a chunk type
TypeCode(b) == <<(b[1] * 256) + b[2], (b[3] * 256) + b[4]>>

\* the chunk has been read, and the file holds its 8-byte header
ChkDone == mon.pc = "done" /\ last.case.keep >= 8

\* the number of payload bytes of the chunk that the file holds
ChkHeld(k) == k.keep - 8

\* the file holds the whole payload of the chunk
ChkWhole(k) == k.len[1] < 128 /\ U31(k.len) <= ChkHeld(k)

\* the outcome of the call by the type of the chunk, c bytes having been
\* consumed after the 8 of the chunk header
ChkOutcome(k, c) ==
  IF k.type = MTrk
    THEN /\ ent.status = SMF_TYPE_BEGIN_TRACK /\ src.fptr = 22
         /\ ps.ckrem = U31(k.len) /\ ps.trkcount = 1
  ELSE IF k.type = MThd
    THEN ent.status = SMF_ERR_MULTI_HEAD /\ src.fptr = 22
    ELSE /\ ent.status = SMF_TYPE_CHUNK /\ ent.chunk_type = TypeCode(k.type)
         /\ src.fptr = 22 + c /\ ps.ckrem < 0 /\ ps.trkcount = 0

\* chunk_type is the code of a chunk type the parser does not know on a
\* CHUNK entity, and 0 on every other entity
ChkTypeField ==
  IF ent.status = SMF_TYPE_CHUNK
    THEN ent.chunk_type # TYPE_MThd /\ ent.chunk_type # TYPE_MTrk
    ELSE ent.chunk_type = <<0, 0>>

\* C22 as stated: after the header, with tracks_seen < nTracks and no chunk
\* open, one smfparse_read reads one 8-byte chunk header and returns
\* BEGIN_TRACK for MTrk, fails with MULTI_HEAD for MThd, and for any other
\* type skips exactly the declared payload and returns CHUNK with that type;
\* chunk_type is never the MThd or MTrk code and is 0 on non-CHUNK entities.
\* (Stated for the calls in which the source reports no error and the
\* length field is at most 2^31 - 1.)
C22_ChunkDispatchAnyFile ==
  /\ ChkTypeField
  /\ (ChkDone /\ last.case.len[1] < 128 /\ ~src.cbErr)
       => ChkOutcome(last.case, U31(last.case.len))

\* C22, corrected: when the chunk header is read and its length field is at
\* most 2^31 - 1 (above that the call fails with HUGE_CHUNK whatever the
\* type), the call returns BEGIN_TRACK for MTrk and fails with MULTI_HEAD
\* for MThd, having read the 8 bytes only; for any other type it skips the
\* declared payload and returns CHUNK with that type when the file holds
\* the payload, and when the file ends before that it stops at the end of
\* the file and returns CHUNK all the same, or fails with IO when the
\* source reports an error.  The statement on chunk_type holds as it is.
C22_ChunkDispatch ==
  /\ ChkTypeField
  /\ (ChkDone /\ last.case.len[1] >= 128) => ent.status = SMF_ERR_HUGE_CHUNK
  /\ (ChkDone /\ last.case.len[1] < 128)
       => IF ChkWhole(last.case) \/ last.case.type \in {MTrk, MThd}
            THEN ChkOutcome(last.case, U31(last.case.len))
            ELSE \/ ChkOutcome(last.case, ChkHeld(last.case))
                 \/ ent.status = SMF_ERR_IO /\ last.case.tail = "err"

\* a chunk of an unknown type with a payload of 2 bytes, followed by
\* another byte, has been skipped
C22_Witness ==
  /\ ChkDone /\ last.case.type = XYZZ /\ last.case.len = <<0, 0, 0, 2>>
  /\ last.case.keep = 11
  /\ ent.status = SMF_TYPE_CHUNK /\ ent.chunk_type = <<22617, 23130>> /\ src.fptr = 24

\* the fields of the entity record other than status
EntityFields ==
  {"pHead", "chunk_type", "delta", "ch", "key", "ctl", "val", "bend", "buf_len", "buf_ptr",
   "seq_num", "txtype", "beat_dur", "tcode", "tsig", "ksig", "meta_type"}

\* the fields an entity of kind k defines
DefinedFields(k) ==
  IF k = SMF_TYPE_HEADER THEN {"pHead"}
  ELSE IF k = SMF_TYPE_CHUNK THEN {"chunk_type"}
  ELSE IF k = SMF_TYPE_END_TRACK THEN {"delta"}
  ELSE IF k \in {SMF_TYPE_NOTE_OFF, SMF_TYPE_NOTE_ON, SMF_TYPE_KEY_AFTERTOUCH}
    THEN {"delta", "ch", "key", "val"}
  ELSE IF k = SMF_TYPE_CONTROL THEN {"delta", "ch", "ctl", "val"}
  ELSE IF k \in {SMF_TYPE_PROGRAM, SMF_TYPE_CH_AFTERTOUCH} THEN {"delta", "ch", "val"}
  ELSE IF k = SMF_TYPE_PITCH_BEND THEN {"delta", "ch", "bend"}
  ELSE IF k \in {SMF_TYPE_SYSEX, SMF_TYPE_SYSESC} THEN {"delta", "buf_len", "buf_ptr"}
  ELSE IF k = SMF_TYPE_SEQ_NUM THEN {"delta", "seq_num"}
  ELSE IF k = SMF_TYPE_TEXT THEN {"delta", "txtype", "buf_len", "buf_ptr"}
  ELSE IF k = SMF_TYPE_CH_PREFIX THEN {"delta", "ch"}
  ELSE IF k = SMF_TYPE_TEMPO THEN {"delta", "beat_dur"}
  ELSE IF k = SMF_TYPE_SMPTE THEN {"delta", "tcode"}
  ELSE IF k = SMF_TYPE_TIME_SIG THEN {"delta", "tsig"}
  ELSE IF k = SMF_TYPE_KEY_SIG THEN {"delta", "ksig"}
  ELSE IF k = SMF_TYPE_META THEN {"delta", "meta_type", "buf_len", "buf_ptr"}
  ELSE {}

\* the sentinel of the field f: -1, NULL or 0
Sentinel(f) ==
  IF f \in {"pHead", "buf_ptr", "tcode", "tsig", "ksig"} THEN NULL
  ELSE IF f = "chunk_type" THEN <<0, 0>>
  ELSE IF f \in {"bend", "buf_len"} THEN 0
  ELSE -1

\* C23: in the entity smfparse_read returns, every field that the returned
\* kind does not define holds its sentinel (-1 for delta, ch, key, ctl, val,
\* seq_num, txtype, beat_dur, meta_type; NULL for pHead, buf_ptr, tcode,
\* tsig, ksig; 0 for chunk_type, bend, buf_len); when the status is a
\* negative error code every field other than status holds its sentinel,
\* whatever the previous call left in the record.
C23_Sentinels ==
  \A f \in EntityFields \ DefinedFields(ent.status) : ent[f] = Sentinel(f)

\* an event without status byte has been rejected in a track whose previous
\* event was a text event, which had left its fields in the record
C23_Witness ==
  /\ last.op = "parse" /\ ent.status = SMF_ERR_RUN_STATUS
  /\ last.pstatus = 1 /\ last.pckrem = 2 /\ mon.trkDecl = MaxTrkLen

\* C24: every call of smfparse_read that returns an entity other than EOF
\* (a status above 0) has consumed at least one byte of the input source;
\* hence on a finite input a caller looping on smfparse_read eventually
\* receives EOF or a negative error code.
C24_Progress ==
  /\ [][(last'.op = "parse" /\ ent'.status > 0) => src'.fptr > src.fptr]_vars
  /\ <>(last.op = "parse" /\ ent.status <= 0)

\* the loop has received the EOF entity after the END_TRACK of the only
\* track, with a byte of the file left unread
C24_Witness ==
  /\ last.op = "parse" /\ ent.status = SMF_TYPE_EOF /\ ps.trkcount = 1
  /\ last.at = src.fptr /\ src.ahead # <<>>

\* an SMPTE entity has been returned for the event of the file, under the
\* drop-frame rate
SmpteReturned29 ==
  /\ SmpteDone /\ ps.head.frame_rate = 29
  /\ ent.status = SMF_TYPE_SMPTE /\ ent.tcode # NULL

ByteTaken == last.op = "byte"

\* the remainder and the file position are as the call found them
ByteUntouched == ps.ckrem = last.rem /\ src.fptr = last.at

\* C26: readChunkByte with remainder 0 fails with OPEN_TRACK, makes no call on
\* the source and leaves the remainder unchanged; with remainder >= 1 it makes
\* exactly one read: a byte is returned and the remainder goes down by exactly
\* 1, an end of file fails with EOF and a read error with IO, the remainder
\* unchanged.  smfparse_read right after the BEGIN_TRACK of a zero-length MTrk
\* chunk fails with OPEN_TRACK.
C26_ChunkByte ==
  /\ (ByteTaken /\ last.rem = 0)
       => /\ last.ret = -1 /\ last.err = SMF_ERR_OPEN_TRACK
          /\ src.nApi = 0 /\ src.cbRead = 0 /\ ByteUntouched
  /\ (ByteTaken /\ last.rem >= 1)
       => /\ src.nApi = 1 /\ src.cbSkip = 0 /\ src.cbRewind = 0
          /\ last.next >= 0
               => /\ last.ret = last.next /\ last.err = 0
                  /\ ps.ckrem = last.rem - 1 /\ src.fptr = last.at + 1
          /\ (last.next < 0 /\ src.tail = "eof")
               => last.ret = -1 /\ last.err = SMF_ERR_EOF /\ ByteUntouched
          /\ (last.next < 0 /\ src.tail = "err")
               => last.ret = -1 /\ last.err = SMF_ERR_IO /\ ByteUntouched
  /\ (last.op = "parse" /\ last.before = SMF_TYPE_BEGIN_TRACK /\ last.rem = 0)
       => /\ ent.status = SMF_ERR_OPEN_TRACK
          /\ src.nApi = 0 /\ ByteUntouched

\* the third byte of a track of three has been taken, then readChunkByte has
\* found the remainder 0 with bytes still in the file
C26_Witness ==
  /\ ByteTaken /\ last.rem = 0 /\ last.next >= 0 /\ last.at = 25
  /\ last.err = SMF_ERR_OPEN_TRACK

\* C27: a call of smfparse_read in which smfsource_read returned the end of
\* the input (in a chunk header, in the header fields, or in an event of an
\* open chunk) returns the error code EOF and leaves the parser in that error
\* state; the EOF entity is returned only by calls that make no call on the
\* source, once nTracks track chunks have been found.
C27_EofIsError ==
  /\ (last.op = "parse" /\ src.rdEof)
       => ent.status = SMF_ERR_EOF /\ ps.status = SMF_ERR_EOF
  /\ (last.op = "parse" /\ ent.status = SMF_TYPE_EOF)
       => /\ src.nApi = 0 /\ ~src.rdEof
          /\ ps.status = 2 /\ last.ptrk >= ps.head.nTracks
          /\ last.pstatus = 2 \/ (last.pstatus = 1 /\ last.pckrem < 0)

\* the input has ended inside an event of an open chunk
C27_Witness ==
  /\ last.op = "parse" /\ src.rdEof /\ last.pstatus = 1 /\ last.pckrem > 1
  /\ src.fptr > mon.trkStart /\ ent.status = SMF_ERR_EOF

\* the parser is inside a track
StatInTrack == last.op = "parse" /\ ps.status = 1 /\ ps.ckrem >= 0

\* the last call read an event of a track
StatEventRead == last.pstatus = 1 /\ last.pckrem >= 0

\* the status byte of the event the last call read: the lead byte, or under
\* running status the status the call found
StatByte == IF last.lead >= 128 THEN last.lead ELSE last.run

\* the status byte that stands for a channel-message entity (-1: none)
StatOfEntity(e) ==
  IF e.status >= SMF_TYPE_NOTE_OFF /\ e.status <= SMF_TYPE_PITCH_BEND
    THEN 128 + (16 * (e.status - SMF_TYPE_NOTE_OFF)) + e.ch
    ELSE -1

\* C28: inside a track the running status is the status byte of the event
\* read last if that was a channel message (0x80-0xEF), and NONE if it was a
\* sysex or meta event or if BEGIN_TRACK was returned last; an event whose
\* first byte is below 0x80 while the running status is NONE fails with
\* RUN_STATUS.
C28_RunningStatusCache ==
  /\ (StatInTrack /\ ~StatEventRead)
       => ent.status = SMF_TYPE_BEGIN_TRACK /\ ps.run = -1
  /\ (StatInTrack /\ StatEventRead)
       => /\ ps.run = (IF StatByte >= 128 /\ StatByte <= 239 THEN StatByte ELSE -1)
          /\ ps.run = StatOfEntity(ent)
  /\ (last.op = "parse" /\ StatEventRead /\ last.lead >= 0 /\ last.lead < 128
        /\ last.run = -1)
       => ent.status = SMF_ERR_RUN_STATUS

\* the second track begins with data bytes, the first track held a channel
\* message before its End Of Track
C28_Witness ==
  /\ last.op = "parse" /\ StatEventRead /\ last.lead = \H3C /\ last.run = -1
  /\ ps.trkcount = 2 /\ ent.status = SMF_ERR_RUN_STATUS
  /\ src.fptr = 14 + 8 + 4 + 4 + 4 + 8 + 2

\* the call that read the message of the file has returned
MsgDone ==
  /\ last.op = "parse"
  /\ last.n = (IF last.case.running THEN 4 ELSE 3)
  /\ last.at = 22 + Len(MsgPre(last.case))

\* the data bytes of the message are valid
MsgValid(k) == k.a < 128 /\ (MsgOneParam(k.s) \/ k.b < 128)

\* the track holds the whole message (a message of one parameter does not
\* need the byte the track is cut short by)
MsgWhole(k) == k.cut = 0 \/ MsgOneParam(k.s)

\* the number of bytes of the message, its delta time included
MsgLen(k) == IF MsgOneParam(k.s) THEN Len(MsgBytes(k)) - 1 ELSE Len(MsgBytes(k))

\* the entity of the reference table for the status byte s and the data
\* bytes a, b, at delta time 0
MsgEntity(s, a, b) ==
  IF s \div 16 = 8
    THEN [EntityReset EXCEPT !.status = SMF_TYPE_NOTE_OFF, !.delta = 0, !.ch = s % 16,
                             !.key = a, !.val = b]
  ELSE IF s \div 16 = 9
    THEN [EntityReset EXCEPT !.status = SMF_TYPE_NOTE_ON, !.delta = 0, !.ch = s % 16,
                             !.key = a, !.val = b]
  ELSE IF s \div 16 = 10
    THEN [EntityReset EXCEPT !.status = SMF_TYPE_KEY_AFTERTOUCH, !.delta = 0,
                             !.ch = s % 16, !.key = a, !.val = b]
  ELSE IF s \div 16 = 11
    THEN [EntityReset EXCEPT !.status = SMF_TYPE_CONTROL, !.delta = 0, !.ch = s % 16,
                             !.ctl = a, !.val = b]
  ELSE IF s \div 16 = 12
    THEN [EntityReset EXCEPT !.status = SMF_TYPE_PROGRAM, !.delta = 0, !.ch = s % 16,
                             !.val = a]
  ELSE IF s \div 16 = 13
    THEN [EntityReset EXCEPT !.status = SMF_TYPE_CH_AFTERTOUCH, !.delta = 0,
                             !.ch = s % 16, !.val = a]
  ELSE [EntityReset EXCEPT !.status = SMF_TYPE_PITCH_BEND, !.delta = 0, !.ch = s % 16,
                           !.bend = ((b * 128) + a) - 8192]

MsgBadData(k) ==
  /\ k.s <= \HEF
  /\ k.running => k.a < 128
  /\ k.a >= 128 \/ (~MsgOneParam(k.s) /\ k.b >= 128)

\* C30: a channel message with a data byte (A, or B of a message of two
\* parameters) that has its top bit set is rejected with MIDI_DATA after all
\* its bytes have been taken from the chunk: file position and chunk
\* remainder are those after the last data byte, also when A is the bad
\* byte; when the track ends before the last data byte the call fails with
\* OPEN_TRACK, not with MIDI_DATA.
C30_DataAfterRead ==
  /\ (MsgDone /\ MsgBadData(last.case) /\ MsgWhole(last.case))
       => /\ ent.status = SMF_ERR_MIDI_DATA
          /\ src.fptr = last.at + MsgLen(last.case)
          /\ ps.ckrem = last.pckrem - MsgLen(last.case)
  /\ (MsgDone /\ MsgBadData(last.case) /\ ~MsgWhole(last.case))
       => /\ ent.status = SMF_ERR_OPEN_TRACK
          /\ src.fptr = last.at + MsgLen(last.case) - 1
          /\ ps.ckrem = 0

\* a pitch bend with a bad first and a good second data byte has been
\* rejected after both were read
C30_Witness ==
  /\ MsgDone /\ last.case.s = \HE0 /\ ~last.case.running /\ last.case.cut = 0
  /\ last.case.a = \H80 /\ last.case.b = \H40
  /\ ent.status = SMF_ERR_MIDI_DATA /\ src.fptr = last.at + 4

\* C31: readChunkHead rejects a length field above 2^31 - 1 with HUGE_CHUNK
\* (no track is opened and nothing is skipped) and otherwise returns the value
\* of the field: the chunk remainder after BEGIN_TRACK is that value, the
\* distance smfsource_skip is called with for a chunk of an unknown type is
\* that value, and neither is ever negative.
C31_ChunkLength ==
  /\ ps.ckrem >= -1 /\ src.skipArg >= -1
  /\ (ChkDone /\ last.case.len[1] >= 128)
       => /\ ent.status = SMF_ERR_HUGE_CHUNK
          /\ ps.ckrem = -1 /\ ps.trkcount = 0 /\ src.skipArg = -1 /\ src.fptr = 22
  /\ (ChkDone /\ last.case.len[1] < 128 /\ last.case.type = MTrk)
       => /\ ent.status = SMF_TYPE_BEGIN_TRACK
          /\ ps.ckrem = U31(last.case.len) /\ ps.ckrem >= 0 /\ src.skipArg = -1
  /\ (ChkDone /\ last.case.len[1] < 128 /\ last.case.type \notin {MTrk, MThd})
       => /\ src.skipArg = U31(last.case.len) /\ src.skipArg >= 0
          /\ ps.ckrem = -1

\* a track of 2^31 - 1 bytes has been opened
C31_Witness ==
  /\ ChkDone /\ last.case.type = MTrk /\ last.case.len = <<\H7F, \HFF, \HFF, \HFF>>
  /\ ent.status = SMF_TYPE_BEGIN_TRACK /\ ps.ckrem = 2147483647

\* the capacities of the data buffer: not allocated, or BCAP_INIT doubled up
\* to BCAP_MAX
BufCaps == {0} \cup {BCAP_INIT * (2 ^ k) : k \in 0..7}

\* the read of the payload of the event is under way or over
BufInPayload == mon.pc \in {"payload", "tail", "done"}

\* the state of the data buffer, and of the payload loop with respect to it:
\* every push has succeeded while the buffer held less than BCAP_MAX bytes,
\* and the push that found it full at BCAP_MAX has failed
BufShape ==
  /\ 0 <= ps.blen /\ ps.blen <= ps.bcap /\ ps.bcap \in BufCaps
  /\ Len(ps.bptr) = ps.blen
  /\ (BufInPayload /\ mon.err = SMF_ERR_BIG_PAYLOAD)
       => mon.status = 0 /\ ps.blen = BCAP_MAX /\ ps.bcap = BCAP_MAX
  /\ (BufInPayload /\ mon.status # 0) => ps.blen = mon.vi /\ mon.vi <= BCAP_MAX
  /\ (mon.pc \in {"tail", "done"} /\ mon.vl > BCAP_MAX /\ last.case.cut = 0)
       => mon.err = SMF_ERR_BIG_PAYLOAD

\* the capacity does not go down, and a call that begins to read an event
\* begins with an empty buffer
BufStep ==
  /\ ps'.bcap >= ps.bcap
  /\ last'.op \in {"head", "again"} => ps'.blen = 0

\* C32: in every parser state 0 <= blen <= bcap, and bcap is 0 or a power of
\* two from 256 to 32768; bcap never decreases; blen is 0 when the read of an
\* in-track event begins; a push fails exactly when blen = bcap = 32768.
C32_ScratchBuffer == []BufShape /\ [][BufStep]_vars

\* after a sysex event of 32768 bytes the next read begins with an empty
\* buffer of the same capacity
C32_Witness ==
  /\ last.op = "again" /\ last.case.len = BCAP_MAX
  /\ ps.bcap = BCAP_MAX /\ ps.blen = 0
  /\ ent.status = SMF_ERR_OPEN_TRACK

\* the frame number is one the frame rate r of the header has
SmpteFrameFits(r, tc) == r \in {24, 25} => tc[4] < r

\* C33: every SMPTE entity returned has hour <= 23, minute <= 59,
\* second <= 59, frame <= 29, ff <= 99, and frame < frame_rate when the header
\* of the file declared 24 or 25 frames per second; its fields are the bytes
\* of the event; an SMPTE Offset event that breaks one of these limits is
\* rejected with SMPTE_OFF.
C33_TimecodeRanges ==
  /\ (SmpteDone /\ ent.status = SMF_TYPE_SMPTE)
       => /\ ent.tcode # NULL
          /\ ent.tcode[1].hour <= 23 /\ ent.tcode[1].minute <= 59
          /\ ent.tcode[1].second <= 59 /\ ent.tcode[1].frame <= 29 /\ ent.tcode[1].ff <= 99
          /\ ps.head.frame_rate \in {24, 25} => ent.tcode[1].frame < ps.head.frame_rate
          /\ <<ent.tcode[1].hour, ent.tcode[1].minute, ent.tcode[1].second,
               ent.tcode[1].frame, ent.tcode[1].ff>> = last.case.tc
  /\ (SmpteDone /\ ~(/\ SmpteInRange(last.case.tc)
                     /\ SmpteFrameFits(SmpteRate(last.case.div), last.case.tc)))
       => ent.status = SMF_ERR_SMPTE_OFF
  /\ (SmpteDone /\ SmpteInRange(last.case.tc)
        /\ SmpteFrameFits(SmpteRate(last.case.div), last.case.tc)
        /\ ~(SmpteRate(last.case.div) = 29 /\ SmpteDropped(last.case.tc)))
       => ent.status = SMF_TYPE_SMPTE

\* frame 24 has been rejected under 24 frames per second
C33_Witness ==
  /\ SmpteDone /\ SmpteRate(last.case.div) = 24
  /\ last.case.tc = <<23, 59, 59, 24, 99>>
  /\ ent.status = SMF_ERR_SMPTE_OFF

\* the call that read the meta-event has returned
MetaDone == last.n = (IF last.case.pre THEN 4 ELSE 3)

\* the event is of type t with n payload bytes
MetaIs(t, n) == last.case.type = t /\ Len(last.case.data) = n

\* the denominators a time signature entity may carry, by their exponent
MetaDenoms == <<1, 2, 4, 8, 16, 32, 64, 128, 256, 512, 1024>>

\* the four bytes make a time signature the parser has to accept
MetaSigValid(d) == d[1] >= 1 /\ d[2] <= 10 /\ d[3] >= 1 /\ d[4] >= 1

\* C34: every TIME_SIG entity has numerator, click and beat_unit in 1..255,
\* equal to payload bytes 0, 2 and 3 of the event, and the denominator 2^d for
\* payload byte 1 = d, at most 1024; a Time Signature event of four bytes with
\* d > 10 (d > 15 included) or with a zero numerator, click or beat_unit is
\* rejected with TIME_SIG, and every other one of four bytes is returned.
C34_TimeSignature ==
  /\ (MetaDone /\ ent.status = SMF_TYPE_TIME_SIG)
       => /\ MetaIs(\H58, 4)
          /\ ent.tsig # NULL
          /\ ent.tsig[1].numerator \in 1..255 /\ ent.tsig[1].click \in 1..255
          /\ ent.tsig[1].beat_unit \in 1..255
          /\ ent.tsig[1].numerator = last.case.data[1]
          /\ ent.tsig[1].click = last.case.data[3]
          /\ ent.tsig[1].beat_unit = last.case.data[4]
          /\ last.case.data[2] <= 10
          /\ ent.tsig[1].denominator = MetaDenoms[last.case.data[2] + 1]
          /\ ent.tsig[1].denominator <= SMF_MAX_TIME_DENOM
          /\ ent.delta = 0
  /\ (MetaDone /\ MetaIs(\H58, 4) /\ ~MetaSigValid(last.case.data))
       => ent.status = SMF_ERR_TIME_SIG
  /\ (MetaDone /\ MetaIs(\H58, 4) /\ MetaSigValid(last.case.data))
       => ent.status = SMF_TYPE_TIME_SIG

\* the time signature 255/1024 has been returned
C34_Witness ==
  /\ MetaDone /\ last.case.type = \H58 /\ last.case.data = <<\HFF, 10, \HFF, \HFF>>
  /\ ent.status = SMF_TYPE_TIME_SIG /\ ent.tsig[1].denominator = 1024

\* the key of a key signature as a signed 8-bit value
MetaSigned(k) == IF k > 127 THEN k - 256 ELSE k

\* the two bytes make a key signature the parser has to accept
MetaKeyValid(d) == MetaSigned(d[1]) \in -7..7 /\ d[2] \in {0, 1}

\* C35: a Key Signature event with payload (k, m) is accepted exactly when the
\* signed 8-bit value of k is in -7..7 and m is 0 or 1; the entity then has
\* key = that signed value (k - 256 for k > 127) and is_minor = m; every other
\* (k, m) is rejected with KEY_SIG.
C35_KeySignature ==
  /\ (MetaDone /\ ent.status = SMF_TYPE_KEY_SIG)
       => /\ MetaIs(\H59, 2)
          /\ MetaKeyValid(last.case.data)
          /\ ent.ksig # NULL
          /\ ent.ksig[1].key = MetaSigned(last.case.data[1])
          /\ ent.ksig[1].is_minor = last.case.data[2]
          /\ ent.delta = 0
  /\ (MetaDone /\ MetaIs(\H59, 2) /\ MetaKeyValid(last.case.data))
       => ent.status = SMF_TYPE_KEY_SIG
  /\ (MetaDone /\ MetaIs(\H59, 2) /\ ~MetaKeyValid(last.case.data))
       => ent.status = SMF_ERR_KEY_SIG

\* seven flats in a minor key (F9 01) have been returned as key -7
C35_Witness ==
  /\ MetaDone /\ last.case.type = \H59 /\ last.case.data = <<\HF9, 1>>
  /\ ent.status = SMF_TYPE_KEY_SIG /\ ent.ksig[1].key = -7 /\ ent.ksig[1].is_minor = 1

\* the entity is of type ty for the meta-event at delta time 0
MetaReturned(ty) == ent.status = ty /\ ent.delta = 0

\* the entity carries the payload of the event in its data buffer
MetaCarries(d) ==
  /\ ent.buf_len = Len(d)
  /\ ent.buf_ptr = (IF Len(d) > 0 THEN d ELSE NULL)

\* what the call that read the event of type t with payload d has to return
MetaVerdict(t, d) ==
  IF t = \H00
    THEN IF Len(d) = 2 THEN MetaReturned(SMF_TYPE_SEQ_NUM) /\ ent.seq_num = (d[1] * 256) + d[2]
         ELSE ent.status = SMF_ERR_SEQ_NUM
  ELSE IF t \in 1..7
    THEN MetaReturned(SMF_TYPE_TEXT) /\ ent.txtype = t /\ MetaCarries(d)
  ELSE IF t = \H20
    THEN IF Len(d) = 1 /\ d[1] <= 15 THEN MetaReturned(SMF_TYPE_CH_PREFIX) /\ ent.ch = d[1]
         ELSE ent.status = SMF_ERR_CH_PREFIX
  ELSE IF t = \H2F
    THEN IF Len(d) = 0 THEN MetaReturned(SMF_TYPE_END_TRACK) ELSE ent.status = SMF_ERR_BAD_EOT
  ELSE IF t = \H51
    THEN IF Len(d) = 3 /\ d # <<0, 0, 0>>
           THEN /\ MetaReturned(SMF_TYPE_TEMPO)
                /\ ent.beat_dur = (d[1] * 65536) + (d[2] * 256) + d[3]
         ELSE ent.status = SMF_ERR_SET_TEMPO
  ELSE IF t = \H54
    THEN IF Len(d) = 5 THEN ent.status \in {SMF_TYPE_SMPTE, SMF_ERR_SMPTE_OFF}
         ELSE ent.status = SMF_ERR_SMPTE_OFF
  ELSE IF t = \H58
    THEN IF Len(d) = 4 THEN ent.status \in {SMF_TYPE_TIME_SIG, SMF_ERR_TIME_SIG}
         ELSE ent.status = SMF_ERR_TIME_SIG
  ELSE IF t = \H59
    THEN IF Len(d) = 2 THEN ent.status \in {SMF_TYPE_KEY_SIG, SMF_ERR_KEY_SIG}
         ELSE ent.status = SMF_ERR_KEY_SIG
  ELSE MetaReturned(SMF_TYPE_META) /\ ent.meta_type = t /\ MetaCarries(d)

\* C36: meta-events of fixed length are accepted only with their exact payload
\* length, which is the number of payload bytes read for this event and not
\* for the one before: SEQ_NUM 2 (else SEQ_NUM), CH_PREFIX 1 with a byte in
\* 0..15 (else CH_PREFIX), END_TRACK 0 (else BAD_EOT), TEMPO 3 and non-zero
\* (else SET_TEMPO), SMPTE 5 (else SMPTE_OFF), TIME_SIG 4 (else TIME_SIG),
\* KEY_SIG 2 (else KEY_SIG); the payload MetaBase at the exact length is
\* returned for each of them; text types 01..07 and all other types are
\* returned with a payload of any length.
C36_MetaLengths ==
  /\ MetaDone => MetaVerdict(last.case.type, last.case.data)
  /\ (MetaDone /\ last.case.data = SubSeq(MetaBase, 1, Len(last.case.data)))
       => (ent.status > 0 <=>
             \/ last.case.type \in {\H01, \H07, \H08, \H7F}
             \/ MetaIs(\H00, 2) \/ MetaIs(\H20, 1) \/ MetaIs(\H2F, 0) \/ MetaIs(\H51, 3)
             \/ MetaIs(\H54, 5) \/ MetaIs(\H58, 4) \/ MetaIs(\H59, 2))

\* a Sequence Number event without payload has been rejected after a text event
\* that left two bytes in the data buffer
C36_Witness ==
  /\ MetaDone /\ last.case.pre /\ MetaIs(\H00, 0)
  /\ ent.status = SMF_ERR_SEQ_NUM /\ ps.blen = 0

\* C37: the rest of a track is skipped and the track closed by the End Of Track
\* meta-event only: a call that returns a NOTE_ON of key 47 (2F) has consumed
\* the one byte of delta time and the two or three bytes of the message, and
\* leaves the chunk remainder at the bytes of the track still unread.
C37_OnlyEndOfTrackSkips ==
  (/\ last.op = "parse" /\ last.pstatus = 1 /\ last.pckrem >= 0
   /\ ent.status = SMF_TYPE_NOTE_ON /\ ent.key = \H2F)
    => ps.ckrem \in {last.pckrem - 4, last.pckrem - 3}

\* C38: whatever bytes the source delivers, and whether its reads end in an
\* end of file or in an I/O error, no call of smfparse_read reaches
\* fault(__LINE__): not the state check of readEvent, not the parameter checks
\* of parseEvent (the presence of a and b, the range of delta, the chunk
\* remainder of 0 at End Of Track), not the last branch of the dispatch nor the
\* test of the error code in smfparse_read, and not the test of the distance
\* in smfsource_skip.
C38_NoFault == ps.fault = 0 /\ src.fault = 0

\* an End Of Track event with a byte of the track after it has been returned:
\* the skip has brought the chunk remainder to 0 before parseEvent tests it
C38_Witness ==
  /\ last.op = "parse" /\ last.pstatus = 1 /\ last.pckrem = 5
  /\ ent.status = SMF_TYPE_END_TRACK /\ src.skipArg = 1
  /\ ps.fault = 0 /\ src.fault = 0

\* ParserShape: the chunk remainder is at least -1; it is 0 or more only
\* after the header, in the header-seen status or in an error raised inside a
\* track, and then at most the length the MTrk header declared; the running
\* status is none (-1) or a byte 80..EF, and none whenever no chunk is open
ParserShape ==
  /\ ps.ckrem >= -1
  /\ ps.ckrem >= 0
       => /\ ps.status = 1 \/ ps.status < 0
          /\ mon.n >= 2 /\ mon.open /\ mon.begun >= 1
          /\ ps.ckrem <= mon.trkDecl
  /\ ps.status \in {0, 2} => ps.ckrem = -1
  /\ ps.run = -1 \/ ps.run \in 128..239
  /\ ps.ckrem = -1 => ps.run = -1

\* ParserStep: while a track is open its chunk remainder does not grow
ParserStep == (ps.ckrem >= 0 /\ ps'.ckrem >= 0) => ps'.ckrem <= ps.ckrem

\* C39: in every reachable state of the parser: chunk_remaining >= -1;
\* chunk_remaining >= 0 only if the header has been seen (the status is
\* header-seen, or an error raised inside a track); while a track is open
\* chunk_remaining never increases and never exceeds the declared MTrk length;
\* the running status is NONE or a byte in 80..EF; chunk_remaining = -1
\* implies that the running status is NONE.
C39_ParserInvariants == []ParserShape /\ [][ParserStep]_vars

\* inside a track that declared 5 bytes, a NOTE_ON has been returned and left
\* one byte of the track and the running status 90
C39_Witness ==
  /\ last.op = "parse" /\ last.pckrem = 5 /\ mon.trkDecl = 5
  /\ ent.status = SMF_TYPE_NOTE_ON /\ ps.ckrem = 1 /\ ps.run = \H90 /\ ps.status = 1

\* C40: over the same bytes and without I/O failure, the parser that reads
\* through a source with a skip callback (a seek, cut short at the end of the
\* file) and the parser that reads through a source without one (the skip
\* made of reads) return the same entity, or the same error code, call after
\* call, also when the header, a foreign chunk or a track declares more
\* bytes than the file holds; the two parsers are in the same state.
C40_SkipEquivalence ==
  /\ ent = mon.ent
  /\ ps = mon.ps
  /\ last.op = "pair" => (src.cbErr = FALSE /\ mon.s.cbErr = FALSE)

\* a foreign chunk that declares more bytes than the file holds has been
\* returned in both sessions: by a seek to the end of the file in one, by
\* reads up to the end of the file in the other
C40_Witness ==
  /\ last.op = "pair" /\ ent.status = SMF_TYPE_CHUNK /\ mon.ent.status = SMF_TYPE_CHUNK
  /\ src.cbSkip = 1 /\ src.cbRead = 8 /\ src.state = SOURCE_STATE_NORMAL
  /\ src.skipArg > src.fptr - (last.from + 8)
  /\ mon.s.cbSkip = 0 /\ mon.s.cbRead > 8 /\ mon.s.state = SOURCE_STATE_EOF

====
